---- MODULE Spec2Model ----
(***************************************************************************)
(* KohTravel agent infrastructure: the tool abstraction (tools/base.py),   *)
(* the Anthropic provider's multi-round tool loop (anthropic_provider.py), *)
(* the agent orchestrator (core/agent.py), the streaming adapters          *)
(* (core/streaming.py) and the agent cache with its cleanup sweep          *)
(* (server/routes/agent.py, server/routes/cleanup.py).                     *)
(*                                                                         *)
(* Each subsystem has its own specification over its own variables; the    *)
(* variables of the other subsystems stay at their initial values.         *)
(***************************************************************************)
EXTENDS Integers, Sequences, FiniteSets, TLC

VARIABLES
    \* ---- Tool.safe_execute (tools/base.py) ----
    se_pc,          \* "ready" before the call, "returned" after it
    se_tool,        \* the tool safe_execute is called on
    se_params,      \* the parameter map passed by the caller
    se_start,       \* datetime.utcnow() at entry
    se_exec,        \* what the tool's execute did (Skipped when never invoked)
    se_ret,         \* what the caller of safe_execute observes
    \* ---- AnthropicProvider.stream_completion (anthropic_provider.py) ----
    p_pc,                   \* "idle", "round" (loop head), "tools" (gather pending), "end"
    provider_tools,         \* self.tools: the provider's tool registry
    round_count,            \* round_count of _execute_tool_conversation
    conversation_messages,  \* the running conversation of the tool loop
    tool_calls,             \* tool_calls of the current round
    task_results,           \* per scheduled task: None while running, Some(outcome) when finished
    completion_order,       \* task indices in the order the tasks finished
    chunks,                 \* the StreamingResponse chunks yielded so far
    model_log,              \* what the model did at each call: a response or a raise
    execs,                  \* what each tool's execute did in the current round
    \* ---- StreamingManager.to_sse_stream (core/streaming.py) ----
    sse_pc,         \* "streaming" (in the try body), "finally", "closed"
    sse_upstream,   \* the chunks the upstream generator yields
    sse_raises,     \* Some(message) when the upstream raises after them, else None
    sse_pos,        \* upstream chunks consumed so far
    sse_out,        \* the SSE records yielded so far
    \* ---- the agent cache (server/routes/agent.py, cleanup.py) ----
    user_agents,    \* the process-wide cache: agent key -> Agent
    now,            \* datetime.utcnow()
    suspended,      \* get_or_create_agent calls suspended at the external tool load
    last_call,      \* Some(call) right after a get_or_create_agent call returned
    last_sweep,     \* Some(sweep) right after an inactive-agent sweep ran
    last_response,  \* Some(response) right after a request without a user id
    allow_file_write \* settings.allow_file_write

VARIABLES
    \* ---- POST /upload (api/routes/documents.py) ----
    documents,      \* the rows of the documents table, in insertion order
    jobs,           \* ids of the documents a processing job was scheduled for
    uploads,        \* the upload requests in flight, by request slot
    last_file       \* Some(step) right after an upload handled one file

VARIABLES
    \* ---- calendar events (api/routes/calendar.py, api/routes/agent_tools.py) ----
    calendar_events,    \* the rows of the calendar_events table, by id
    next_event_id,      \* the id the next inserted row gets
    last_approval       \* Some(approval) right after a suggestion was approved

VARIABLES
    \* ---- users and the migration service (api/services/user_migration.py) ----
    users,          \* the rows of the users table
    mig_calls       \* what happened to the users and documents tables, in order

VARIABLES
    \* ---- the document tools (api/routes/agent_tools.py) ----
    library,        \* the processed documents, in the order of their created_at
    last_search,    \* Some(the last search_documents call) on the current data set
    last_get        \* Some(the last get_document call) on the current data set

VARIABLES
    \* ---- the file tools (agent-infrastructure/src/tools/file_ops.py) ----
    allowed_paths,  \* self.allowed_paths of the three tools
    fs,             \* the files on disk: absolute path -> content
    last_op         \* Some(the last execute of a file tool)

VARIABLES
    \* ---- processing of one document (api/services/document_processor.py) ----
    pdoc,           \* Some(the document's row) or None once it is deleted
    quick_ref_rows, \* the rows of document_quick_refs, in insertion order
    proc_pc,        \* process_document_async: "scheduled", "started", "extracted", "done"
    reproc_pc,      \* reprocess_with_ai: "idle" or "scheduled"
    passes,         \* reprocess requests accepted so far
    overlapped,     \* TRUE once a pass started while another was in flight
    last_pass,      \* Some(pass) right after a pass ended on the existing row
    stream_pc,      \* the status stream: "idle", "polling", "ended"
    stream_user,    \* the user the stream was opened by
    stream_events   \* the events the stream has emitted

VARIABLES
    \* ---- the chat bridge of the API (api/services/agent_service.py) ----
    turn,           \* Some(the send_message call that has initialized its agent)
    turn_log        \* the completed send_message calls, in order

VARIABLES
    \* ---- clients of the agent cache with arbitrary project and user strings ----
    iso_call,       \* Some(request) right after a chat request got its agent
    iso_cleanup     \* Some(cleanup) right after DELETE /user/{user_id}/agents

VARIABLES
    \* ---- concurrent chat requests for one agent key (server/routes/agent.py) ----
    race_calls,     \* the state of each request: its position, session, message, agent
    race_heap,      \* the Agent objects built so far, by object index
    race_cached     \* the index of the object cached under the key, 0 if none

VARIABLES
    \* ---- the background tasks of POST /upload (api/routes/documents.py) ----
    background_tasks,   \* per request slot: the documents add_task was called for
    running             \* the tasks the server runs once their response is sent

toolVars == <<se_pc, se_tool, se_params, se_start, se_exec, se_ret>>

provVars == <<p_pc, provider_tools, round_count, conversation_messages, tool_calls,
              task_results, completion_order, chunks, model_log, execs>>

sseVars == <<sse_pc, sse_upstream, sse_raises, sse_pos, sse_out>>

cacheVars == <<user_agents, now, suspended, last_call, last_sweep, last_response,
              allow_file_write>>

uploadVars == <<documents, jobs, uploads, last_file>>

(* The agent-infrastructure service and the API service.                   *)
infraVars == <<toolVars, provVars, sseVars, cacheVars>>
calVars == <<calendar_events, next_event_id, last_approval>>
migVars == <<users, mig_calls>>
docVars == <<library, last_search, last_get>>
fileVars == <<allowed_paths, fs, last_op>>
procVars == <<pdoc, quick_ref_rows, proc_pc, reproc_pc, passes, overlapped, last_pass,
              stream_pc, stream_user, stream_events>>
bridgeVars == <<turn, turn_log>>
isoVars == <<iso_call, iso_cleanup>>
raceVars == <<race_calls, race_heap, race_cached>>
taskVars == <<background_tasks, running>>
apiVars == <<uploadVars, calVars, migVars, docVars, fileVars, procVars, bridgeVars, isoVars, raceVars, taskVars>>

vars == <<infraVars, apiVars>>

-----------------------------------------------------------------------------
(* Optional[T]: None is the empty sequence, Some(x) a one-element sequence. *)
None == <<>>
Some(x) == <<x>>

(* An expression either returns a value or raises an exception with a message. *)
Returned(v) == [raised |-> FALSE, value |-> v]
Raised(m) == [raised |-> TRUE, message |-> m]

-----------------------------------------------------------------------------
(* Bounds of the model.                                                    *)
MaxParams == 2      \* entries of a parameter map
MaxStart == 1       \* the clock reading at entry to safe_execute
MaxElapsed == 1     \* clock ticks a tool execution may take

-----------------------------------------------------------------------------
(* Tools.  A tool declares an ordered parameter list; each parameter has a *)
(* name, a declared type and a required flag (ToolParameter).              *)
SearchTool ==
    [name |-> "search",
     parameters |-> << [name |-> "query", type |-> "string", required |-> TRUE],
                       [name |-> "limit", type |-> "integer", required |-> FALSE] >>]

NoArgsTool == [name |-> "ping", parameters |-> << >>]

LooseTool ==
    [name |-> "loose",
     parameters |-> << [name |-> "query", type |-> "any", required |-> FALSE] >>]

Tools == {SearchTool, NoArgsTool, LooseTool}

(* Runtime values are abstracted to their Python type.                     *)
PyTypes == {"str", "int", "bool"}
ParamNames == {"query", "limit"}

(* A parameter map is a Python dict: insertion-ordered <<name, value>>     *)
(* pairs with distinct names.                                              *)
ParamMaps ==
    { m \in UNION { [1..n -> ParamNames \X PyTypes] : n \in 0..MaxParams } :
        \A i, j \in DOMAIN m : i # j => m[i][1] # m[j][1] }

HasKey(parameters, k) == \E i \in DOMAIN parameters : parameters[i][1] = k

(* Tool.get_parameters_schema: the "required" list and the "properties"    *)
(* name -> type mapping, both in declaration order.                        *)
RECURSIVE SelectRequired(_)
SelectRequired(ps) ==
    IF ps = << >> THEN << >>
    ELSE IF Head(ps).required
         THEN <<Head(ps).name>> \o SelectRequired(Tail(ps))
         ELSE SelectRequired(Tail(ps))

get_parameters_schema(tool) ==
    [required |-> SelectRequired(tool.parameters),
     properties |-> { <<tool.parameters[i].name, tool.parameters[i].type>> :
                        i \in DOMAIN tool.parameters }]

(* Tool._validate_type: isinstance against the type mapping; a declared    *)
(* type outside the mapping is not checked.  bool is a subclass of int.    *)
validate_type(value, expected_type) ==
    CASE expected_type = "string"  -> value = "str"
      [] expected_type = "integer" -> value \in {"int", "bool"}
      [] expected_type = "boolean" -> value = "bool"
      [] expected_type = "array"   -> value = "list"
      [] expected_type = "object"  -> value = "dict"
      [] OTHER -> TRUE

(* Tool.validate_parameters: the first missing required parameter raises;  *)
(* then the first present parameter (in dict order) of a declared name     *)
(* whose value fails the type check raises; otherwise returns True.        *)
RECURSIVE FirstMissing(_, _)
FirstMissing(required, parameters) ==
    IF required = << >> THEN None
    ELSE IF ~HasKey(parameters, Head(required)) THEN Some(Head(required))
         ELSE FirstMissing(Tail(required), parameters)

RECURSIVE FirstInvalid(_, _)
FirstInvalid(properties, parameters) ==
    IF parameters = << >> THEN None
    ELSE LET name == Head(parameters)[1]
             value == Head(parameters)[2]
             declared == { p \in properties : p[1] = name }
         IN IF \E p \in declared : ~validate_type(value, p[2])
            THEN Some(name)
            ELSE FirstInvalid(properties, Tail(parameters))

validate_parameters(tool, parameters) ==
    LET schema == get_parameters_schema(tool)
        missing == FirstMissing(schema.required, parameters)
        invalid == FirstInvalid(schema.properties, parameters)
    IN IF missing # None
       THEN Raised(<<"Required parameter", missing[1], "missing">>)
       ELSE IF invalid # None
            THEN Raised(<<"Parameter", invalid[1], "has invalid type">>)
            ELSE Returned(TRUE)

-----------------------------------------------------------------------------
(* ToolResult (tools/base.py:13-26).                                       *)
ToolResult(success, content, error, metadata, execution_time) ==
    [success |-> success, content |-> content, error |-> error,
     metadata |-> metadata, execution_time |-> execution_time]

(* What a tool's execute can do: return a ToolResult (successful or not)   *)
(* or raise.  Skipped marks an execute that was never invoked.             *)
Skipped == [kind |-> "skipped"]
ExecReturns(success, content, error) ==
    [kind |-> "return",
     result |-> ToolResult(success, content, error, None, None)]
ExecRaises(m) == [kind |-> "raise", message |-> m]

ExecOutcomes ==
    { ExecReturns(TRUE, <<"found 2 documents">>, None),
      ExecReturns(FALSE, <<"no access">>, Some(<<"auth_failed">>)),
      ExecRaises(<<"connection refused">>) }

(* Tool.safe_execute: validation and execution inside one try block; any   *)
(* exception becomes a failed ToolResult carrying the message, the raw     *)
(* parameters and the elapsed time; a returned result gets its             *)
(* execution_time stamped.  exec is what execute does if it is invoked.    *)
SafeExecuteUnguardedValidation(tool, parameters, exec, start, end) ==
    LET valid == validate_parameters(tool, parameters)
    IN IF valid.raised THEN Raised(valid.message)
       ELSE IF exec.kind = "raise"
            THEN Returned(ToolResult(FALSE, <<"Tool execution failed: ", exec.message>>,
                                     Some(exec.message), Some(parameters), Some(end - start)))
            ELSE Returned([exec.result EXCEPT !.execution_time = Some(end - start)])

safe_execute(tool, parameters, exec, start, end) ==
    LET valid == validate_parameters(tool, parameters)
        failure(m) == ToolResult(FALSE, <<"Tool execution failed: ", m>>,
                                 Some(m), Some(parameters), Some(end - start))
    IN IF valid.raised THEN Returned(failure(valid.message))
       ELSE IF exec.kind = "raise" THEN Returned(failure(exec.message))
            ELSE Returned([exec.result EXCEPT !.execution_time = Some(end - start)])

(* execute is invoked only when validation passed.                         *)
ExecInvoked(tool, parameters) == ~validate_parameters(tool, parameters).raised

-----------------------------------------------------------------------------
(* Specification of Tool.safe_execute on bounded inputs.                   *)
ToolIdle ==
    /\ se_pc = "idle" /\ se_tool = NoArgsTool /\ se_params = << >>
    /\ se_start = 0 /\ se_exec = Skipped /\ se_ret = Returned(None)

InitTool ==
    /\ se_pc = "ready"
    /\ se_tool \in Tools
    /\ se_params \in ParamMaps
    /\ se_start \in 0..MaxStart
    /\ se_exec = Skipped
    /\ se_ret = Returned(None)

SafeExecute ==
    /\ se_pc = "ready"
    /\ \E exec \in ExecOutcomes, elapsed \in 0..MaxElapsed :
         /\ se_exec' = IF ExecInvoked(se_tool, se_params) THEN exec ELSE Skipped
         /\ se_ret' = safe_execute(se_tool, se_params, exec, se_start, se_start + elapsed)
    /\ se_pc' = "returned"
    /\ UNCHANGED <<se_tool, se_params, se_start>>

-----------------------------------------------------------------------------
(* Streaming chunks (core/streaming.py:39-88).                             *)
ContentChunk(content) ==
    [type |-> "content", data |-> [content |-> content, delta |-> FALSE]]
ToolCallChunk(tool_name, arguments, call_id) ==
    [type |-> "tool_call",
     data |-> [name |-> tool_name, arguments |-> arguments, id |-> call_id]]
ToolResultChunk(result, call_id) ==
    [type |-> "tool_result", data |-> [result |-> result, id |-> call_id]]
ErrorChunk(error, code) ==
    [type |-> "error", data |-> [error |-> error, code |-> code]]
DoneChunk(final_message) ==
    [type |-> "done", data |-> [final_message |-> final_message]]

-----------------------------------------------------------------------------
(* The model double.  A response is a list of content blocks, each a text  *)
(* block or a tool_use block; tool_use ids are unique per stream.          *)
MaxBlocks == 2      \* content blocks of one model response

max_rounds == 3

TextBlock(t) == [type |-> "text", text |-> t]
ToolUseShape(name, input) == [type |-> "tool_use", name |-> name, input |-> input]

GoodInput == << <<"query", "str">> >>

BlockShapes == { TextBlock("a"), ToolUseShape("search", GoodInput) }

WithIds(shape, round) ==
    [k \in DOMAIN shape |->
        IF shape[k].type = "tool_use"
        THEN [type |-> "tool_use", id |-> <<"toolu", round, k>>,
              name |-> shape[k].name, input |-> shape[k].input]
        ELSE shape[k]]

Responses(round) ==
    { WithIds(shape, round) :
        shape \in UNION { [1..n -> BlockShapes] : n \in 0..MaxBlocks } }

ModelErrors == { <<"overloaded">> }

(* What a tool's execute does when a task of the stream invokes it.        *)
StreamExecOutcomes ==
    { ExecReturns(TRUE, <<"found 2 documents">>, None),
      ExecRaises(<<"connection refused">>) }

(* The messages stream_completion is called with.                           *)
InitialMessages ==
    << [role |-> "system", content |-> <<TextBlock("sys")>>],
       [role |-> "user", content |-> <<TextBlock("hi")>>] >>

-----------------------------------------------------------------------------
(* _execute_tool_conversation, lines 120-165: processing of one response.  *)

(* text_content: the texts of the text blocks, concatenated in order.      *)
RECURSIVE TextContentLastBlockOnly(_)
TextContentLastBlockOnly(response) ==
    IF response = << >> THEN << >>
    ELSE LET rest == TextContentLastBlockOnly(Tail(response))
         IN IF rest # << >> THEN rest
            ELSE IF Head(response).type = "text" THEN <<Head(response).text>> ELSE << >>

RECURSIVE TextContent(_)
TextContent(response) ==
    IF response = << >> THEN << >>
    ELSE IF Head(response).type = "text"
         THEN <<Head(response).text>> \o TextContent(Tail(response))
         ELSE TextContent(Tail(response))

(* tool_calls: one {id, name, input} per tool_use block, in block order.   *)
RECURSIVE ToolCallsOf(_)
ToolCallsOf(response) ==
    IF response = << >> THEN << >>
    ELSE IF Head(response).type = "tool_use"
         THEN << [id |-> Head(response).id, name |-> Head(response).name,
                  input |-> Head(response).input] >> \o ToolCallsOf(Tail(response))
         ELSE ToolCallsOf(Tail(response))

(* The chunk yielded for each block, in block order.                       *)
BlockChunks(response) ==
    [k \in DOMAIN response |->
        IF response[k].type = "text"
        THEN ContentChunk(response[k].text)
        ELSE ToolCallChunk(response[k].name, response[k].input, response[k].id)]

(* The while condition of the round loop (line 96).                        *)
LoopContinuesOffByOne(count) == count <= max_rounds

LoopContinues(count) == count < max_rounds

-----------------------------------------------------------------------------
(* _execute_tools_parallel, lines 194-245.                                 *)
LookupTool(registry, name) == CHOOSE t \in registry : t.name = name

(* execute_single_tool: an unregistered name gives a tool_not_found        *)
(* result; otherwise safe_execute, with any exception it lets through      *)
(* converted to a failed result.                                           *)
execute_single_tool(registry, tool_call, exec) ==
    IF ~\E t \in registry : t.name = tool_call.name
    THEN Returned(ToolResult(FALSE, <<"Tool '", tool_call.name, "' not available">>,
                             Some(<<"tool_not_found">>), None, None))
    ELSE LET r == safe_execute(LookupTool(registry, tool_call.name),
                               tool_call.input, exec, 0, 0)
         IN IF r.raised
            THEN Returned(ToolResult(FALSE, <<"Tool execution failed: ", r.message>>,
                                     Some(r.message), None, None))
            ELSE r

(* Whether the task for this call invokes the tool's execute.              *)
TaskInvokesExecute(registry, tool_call) ==
    /\ \E t \in registry : t.name = tool_call.name
    /\ ExecInvoked(LookupTool(registry, tool_call.name), tool_call.input)

(* asyncio.gather with return_exceptions=True: the outcomes in task       *)
(* order, whatever order the tasks finished in.                            *)
GatherInCompletionOrder(results, order) ==
    [i \in DOMAIN results |-> results[order[i]][1]]

Gather(results, order) ==
    [i \in DOMAIN results |-> results[i][1]]

(* Lines 233-245: exceptions among the gathered outcomes become failed     *)
(* ToolResults.                                                            *)
FinalResults(gathered) ==
    [i \in DOMAIN gathered |->
        IF gathered[i].raised
        THEN ToolResult(FALSE, <<"Tool execution exception: ", gathered[i].message>>,
                        Some(gathered[i].message), None, None)
        ELSE gathered[i].value]

(* Lines 170-182: one tool_result chunk per (call, result) pair of the zip. *)
ToolResultChunksSuccessOnly(calls, results) ==
    LET ok == SelectSeq([i \in DOMAIN calls |-> i], LAMBDA i : results[i].success)
    IN [k \in DOMAIN ok |-> ToolResultChunk(results[ok[k]], calls[ok[k]].id)]

ToolResultChunks(calls, results) ==
    [i \in DOMAIN calls |-> ToolResultChunk(results[i], calls[i].id)]

ToolResultContent(calls, results) ==
    [i \in DOMAIN calls |->
        [type |-> "tool_result", tool_use_id |-> calls[i].id,
         content |-> results[i].content]]

(* stream_completion, lines 76-78: any exception of the loop becomes one   *)
(* error chunk.                                                            *)
OnExceptionSwallowed(yielded, message) == yielded

OnException(yielded, message) ==
    Append(yielded, ErrorChunk(<<"Streaming failed: ", message>>, "anthropic_error"))

-----------------------------------------------------------------------------
(* The provider's stream.                                                  *)
ProvIdle ==
    /\ p_pc = "idle"
    /\ provider_tools = {}
    /\ round_count = 0
    /\ conversation_messages = << >>
    /\ tool_calls = << >>
    /\ task_results = << >>
    /\ completion_order = << >>
    /\ chunks = << >>
    /\ model_log = << >>
    /\ execs = << >>

(* set_tools (lines 47-50), before the stream is started.                  *)
SetTools ==
    /\ p_pc = "idle"
    /\ provider_tools = {}
    /\ provider_tools' = {SearchTool}
    /\ UNCHANGED <<p_pc, round_count, conversation_messages, tool_calls, task_results,
                   completion_order, chunks, model_log, execs>>

(* stream_completion is called: lines 93-94.                               *)
StartStream ==
    /\ p_pc = "idle"
    /\ p_pc' = "round"
    /\ conversation_messages' = InitialMessages
    /\ round_count' = 0
    /\ UNCHANGED <<provider_tools, tool_calls, task_results, completion_order, chunks,
                   model_log, execs>>

(* One round whose model call returns (lines 96-165 and 167-168): the      *)
(* blocks are streamed; a tool-free response ends the stream with done,    *)
(* any other schedules its tool calls.                                     *)
RoundModelResponds ==
    /\ p_pc = "round"
    /\ LoopContinues(round_count)
    /\ round_count' = round_count + 1
    /\ \E response \in Responses(round_count + 1) :
         LET calls == ToolCallsOf(response)
             streamed == chunks \o BlockChunks(response)
         IN /\ model_log' = Append(model_log, [kind |-> "response", response |-> response])
            /\ conversation_messages' =
                 Append(conversation_messages, [role |-> "assistant", content |-> response])
            /\ tool_calls' = calls
            /\ task_results' = [i \in DOMAIN calls |-> None]
            /\ execs' = [i \in DOMAIN calls |-> Skipped]
            /\ completion_order' = << >>
            /\ IF calls = << >>
               THEN /\ chunks' = Append(streamed, DoneChunk(Some(TextContent(response))))
                    /\ p_pc' = "end"
               ELSE /\ chunks' = streamed
                    /\ p_pc' = "tools"
    /\ UNCHANGED provider_tools

(* One round whose model call raises (line 118, caught at lines 76-78).    *)
RoundModelRaises ==
    /\ p_pc = "round"
    /\ LoopContinues(round_count)
    /\ round_count' = round_count + 1
    /\ \E m \in ModelErrors :
         /\ model_log' = Append(model_log, [kind |-> "raise", message |-> m])
         /\ chunks' = OnException(chunks, m)
    /\ p_pc' = "end"
    /\ UNCHANGED <<provider_tools, conversation_messages, tool_calls, task_results,
                   completion_order, execs>>

(* One scheduled task finishes; tasks finish in any order.                 *)
ToolCompletes ==
    /\ p_pc = "tools"
    /\ \E i \in DOMAIN tool_calls :
         /\ task_results[i] = None
         /\ \E exec \in StreamExecOutcomes :
              /\ task_results' = [task_results EXCEPT
                     ![i] = Some(execute_single_tool(provider_tools, tool_calls[i], exec))]
              /\ execs' = [execs EXCEPT
                     ![i] = IF TaskInvokesExecute(provider_tools, tool_calls[i])
                            THEN exec ELSE Skipped]
         /\ completion_order' = Append(completion_order, i)
    /\ UNCHANGED <<p_pc, provider_tools, round_count, conversation_messages, tool_calls,
                   chunks, model_log>>

(* gather returns once every task has finished; the results are streamed   *)
(* and appended to the conversation (lines 168-188).                       *)
EmitToolResults ==
    /\ p_pc = "tools"
    /\ \A i \in DOMAIN tool_calls : task_results[i] # None
    /\ LET tool_results == FinalResults(Gather(task_results, completion_order))
       IN /\ chunks' = chunks \o ToolResultChunks(tool_calls, tool_results)
          /\ conversation_messages' =
               Append(conversation_messages,
                      [role |-> "user",
                       content |-> ToolResultContent(tool_calls, tool_results)])
    /\ p_pc' = "round"
    /\ UNCHANGED <<provider_tools, round_count, tool_calls, task_results,
                   completion_order, model_log, execs>>

(* The loop ends without a tool-free response (lines 190-192).             *)
MaxRoundsReached ==
    /\ p_pc = "round"
    /\ ~LoopContinues(round_count)
    /\ chunks' = Append(chunks, ErrorChunk(<<"Conversation reached maximum rounds">>,
                                           "max_rounds_exceeded"))
    /\ p_pc' = "end"
    /\ UNCHANGED <<provider_tools, round_count, conversation_messages, tool_calls,
                   task_results, completion_order, model_log, execs>>

-----------------------------------------------------------------------------
(* Agent.send_message (core/agent.py:108-152): what the agent yields for   *)
(* each chunk of the provider's stream.  A tool_call chunk is re-emitted   *)
(* as tool_call_start followed by the result of the agent's own tool       *)
(* execution (_execute_tool catches every exception, so the result chunk   *)
(* is always tool_call_result; its payload is abstracted to the tool       *)
(* name); content and done chunks pass through; no other branch exists.    *)
AgentYields(chunk) ==
    CASE chunk.type = "tool_call" ->
            << [type |-> "tool_call_start", data |-> chunk.data],
               [type |-> "tool_call_result", data |-> [tool |-> chunk.data.name]] >>
      [] chunk.type = "content" -> << chunk >>
      [] chunk.type = "done" -> << chunk >>
      [] OTHER -> << >>

RECURSIVE send_message(_)
send_message(provider_chunks) ==
    IF provider_chunks = << >> THEN << >>
    ELSE AgentYields(Head(provider_chunks)) \o send_message(Tail(provider_chunks))

(* hasattr on a StreamingResponse object: its fields and methods           *)
(* (core/streaming.py:10-36); the final message lives inside data.         *)
StreamingResponseAttributes ==
    { "type", "data", "timestamp", "to_sse_event", "to_websocket_message" }

HasAttr(chunk, name) == name \in StreamingResponseAttributes

Message(role, content) == [role |-> role, content |-> content]

(* The messages send_message adds to the conversation for one chunk        *)
(* (core/agent.py:124-129, 146-151).                                       *)
AgentRecords(chunk) ==
    CASE chunk.type = "tool_call" ->
            << Message("tool", << "result of", chunk.data.name >>) >>
      [] chunk.type = "done" ->
            IF HasAttr(chunk, "final_message") /\ chunk.final_message \notin {None, << >>}
            THEN << Message("assistant", chunk.final_message) >>
            ELSE << >>
      [] OTHER -> << >>

RECURSIVE RecordAll(_)
RecordAll(provider_chunks) ==
    IF provider_chunks = << >> THEN << >>
    ELSE AgentRecords(Head(provider_chunks)) \o RecordAll(Tail(provider_chunks))

(* The session's conversation after the turn: the user message of lines    *)
(* 95-98, then what the loop added.                                        *)
ConversationAfter(message, provider_chunks) ==
    << Message("user", message) >> \o RecordAll(provider_chunks)

(* StreamingManager.collect_full_response (core/streaming.py:126-148).     *)
RECURSIVE ContentParts(_)
ContentParts(stream) ==
    IF stream = << >> THEN << >>
    ELSE IF Head(stream).type = "content"
         THEN <<Head(stream).data.content>> \o ContentParts(Tail(stream))
         ELSE ContentParts(Tail(stream))

collect_full_response(stream) ==
    LET tool_call_data == SelectSeq(stream, LAMBDA c : c.type = "tool_call")
        errors == SelectSeq(stream, LAMBDA c : c.type = "error")
    IN [content |-> ContentParts(stream),
        tool_calls |-> [i \in DOMAIN tool_call_data |-> tool_call_data[i].data],
        errors |-> [i \in DOMAIN errors |-> errors[i].data],
        success |-> Len(errors) = 0]

(* POST /chat (server/routes/agent.py:134-148): the ChatResponse built     *)
(* from the collected stream of Agent.send_message.                        *)
chat(provider_chunks) ==
    LET full_response == collect_full_response(send_message(provider_chunks))
    IN [status |-> IF full_response.success THEN "success" ELSE "error",
        message |-> full_response.content]

(* StreamingResponse.to_sse_event (core/streaming.py:21-28): the chunk's   *)
(* type and data serialised as the data line of a "message" event (the     *)
(* timestamp is left out).                                                 *)
to_sse_event(chunk) ==
    [event |-> "message", data |-> [type |-> chunk.type, data |-> chunk.data]]

-----------------------------------------------------------------------------
(* StreamingManager.to_sse_stream (core/streaming.py:94-108) over an       *)
(* arbitrary upstream generator.                                           *)
MaxUpstream == 3    \* chunks an upstream generator yields

UpstreamChunks ==
    { ContentChunk("a"),
      DoneChunk(Some(<<"a">>)),
      ErrorChunk(<<"Conversation reached maximum rounds">>, "max_rounds_exceeded") }

UpstreamErrors == { <<"upstream closed">> }

(* The finally block: the trailing done record.                            *)
SseFinallyUnlessError(out) ==
    IF out # << >> /\ out[Len(out)].data.type = "error"
    THEN out
    ELSE Append(out, to_sse_event(DoneChunk(None)))

SseFinallyBlock(out) == Append(out, to_sse_event(DoneChunk(None)))

SseIdle ==
    /\ sse_pc = "idle" /\ sse_upstream = << >> /\ sse_raises = None
    /\ sse_pos = 0 /\ sse_out = << >>

InitSse ==
    /\ sse_pc = "streaming"
    /\ sse_upstream \in UNION { [1..n -> UpstreamChunks] : n \in 0..MaxUpstream }
    /\ sse_raises \in {None} \cup { Some(m) : m \in UpstreamErrors }
    /\ sse_pos = 0
    /\ sse_out = << >>

(* Lines 100-101: one record per upstream chunk.                           *)
SseForward ==
    /\ sse_pc = "streaming"
    /\ sse_pos < Len(sse_upstream)
    /\ sse_out' = Append(sse_out, to_sse_event(sse_upstream[sse_pos + 1]))
    /\ sse_pos' = sse_pos + 1
    /\ UNCHANGED <<sse_pc, sse_upstream, sse_raises>>

(* Lines 102-104: the upstream raises.                                     *)
SseExcept ==
    /\ sse_pc = "streaming"
    /\ sse_pos = Len(sse_upstream)
    /\ sse_raises # None
    /\ sse_out' = Append(sse_out, to_sse_event(ErrorChunk(sse_raises[1], "stream_error")))
    /\ sse_pc' = "finally"
    /\ UNCHANGED <<sse_upstream, sse_raises, sse_pos>>

(* Lines 105-108: the finally block, after the except block or after the   *)
(* upstream is exhausted.                                                  *)
SseFinally ==
    /\ \/ sse_pc = "finally"
       \/ sse_pc = "streaming" /\ sse_pos = Len(sse_upstream) /\ sse_raises = None
    /\ sse_out' = SseFinallyBlock(sse_out)
    /\ sse_pc' = "closed"
    /\ UNCHANGED <<sse_upstream, sse_raises, sse_pos>>

-----------------------------------------------------------------------------
(* The agent cache: get_or_create_agent (server/routes/agent.py:40-118),   *)
(* the routes that call it, and the cleanup routes (cleanup.py).           *)
MaxTime == 2        \* hours the clock runs for
MaxSuspended == 2   \* get_or_create_agent calls suspended at the same time

(* timedelta(hours=1) of the sweep; the clock counts hours.                *)
OneHour == 1

(* Strings that take part in key construction are sequences of tokens.     *)
Projects == { <<"default">>, <<"kohtravel">> }
Users == { <<"u1">> }
Sessions == { "s1", "s2" }
Prompts == { "custom prompt" }
DefaultPrompt == "You are a helpful AI assistant."

(* Python dicts as functions.                                              *)
EmptyDict == [k \in {} |-> 0]
Put(d, k, v) == [x \in DOMAIN d \cup {k} |-> IF x = k THEN v ELSE d[x]]
Del(d, k) == [x \in DOMAIN d \ {k} |-> d[x]]
Get(d, k) == IF k \in DOMAIN d THEN Some(d[k]) ELSE None

(* agent_key = f"{project}:{user_id}" (line 42).                           *)
AgentKey(project, user_id) == project \o <<":">> \o user_id

(* external_tools_config (lines 71-74): the projects whose tools are       *)
(* loaded over HTTP, which suspends the call (line 79).                    *)
ExternalToolProjects == { <<"kohtravel">> }

(* Lines 45-49: a supplied prompt evicts the cached entry.                 *)
EvictForPromptNever(cache, agent_key, system_prompt) == cache

EvictForPrompt(cache, agent_key, system_prompt) ==
    IF system_prompt # None /\ agent_key \in DOMAIN cache
    THEN Del(cache, agent_key)
    ELSE cache

(* Lines 54-113: the Agent constructed on a miss; Agent.__init__ starts    *)
(* with no conversations (core/agent.py:43).                               *)
(* The tools load_tools_from_endpoint returns for the project.             *)
ExternalTools == << SearchTool.name >>

(* Agent.register_tool (core/agent.py:47-53): the registry afterwards.     *)
register_tool(enabled_tools, tools, name) ==
    IF name \in enabled_tools \/ enabled_tools = {} THEN tools \cup {name} ELSE tools

RECURSIVE RegisterAll(_, _, _)
RegisterAll(enabled_tools, tools, names) ==
    IF names = << >> THEN tools
    ELSE RegisterAll(enabled_tools, register_tool(enabled_tools, tools, Head(names)),
                     Tail(names))

(* Lines 54-116: the agent built for the key, its registry included.       *)
NewAgent(project, user_id, system_prompt, project_tools) ==
    LET enabled_tools == { project_tools[i] : i \in DOMAIN project_tools } \cup {"read_file"}
        standard == << "read_file" >>
                    \o (IF allow_file_write THEN << "write_file", "list_directory" >>
                        ELSE << >>)
    IN [project |-> project, user_id |-> user_id,
        system_prompt |-> IF system_prompt = None THEN DefaultPrompt ELSE system_prompt[1],
        tools |-> RegisterAll(enabled_tools, {}, project_tools \o standard),
        conversations |-> EmptyDict]

(* The requests that reach get_or_create_agent:                            *)
(*   POST /init passes its system prompt and does nothing further          *)
(*   (init.py:46-61);                                                      *)
(*   POST /chat and /chat/stream pass no prompt, then send_message gets or *)
(*   creates the session's conversation and adds the user message, which   *)
(*   sets updated_at (server/routes/agent.py:128-139, core/agent.py:92-98, *)
(*   conversation.py:45-55).                                               *)
Requests ==
    { [route |-> "init", prompt |-> Some(q)] : q \in Prompts }
    \cup { [route |-> "chat", prompt |-> None, session |-> s] : s \in Sessions }

(* What the route does with the agent it got.  The agent is the object     *)
(* cached under the key, so the cache entry changes with it.               *)
RouteEffect(agent, request, time) ==
    IF request.route = "chat"
    THEN [agent EXCEPT !.conversations =
             Put(agent.conversations, request.session, [updated_at |-> time])]
    ELSE agent

CallRecord(agent_key, system_prompt, existed, before, returned, cached) ==
    [key |-> agent_key, prompt |-> system_prompt, existed |-> existed,
     before |-> before, returned |-> returned, cached |-> cached]

CacheIdle ==
    /\ user_agents = EmptyDict
    /\ now = 0
    /\ suspended = {}
    /\ last_call = None
    /\ last_sweep = None
    /\ last_response = None
    /\ allow_file_write = FALSE

(* A request calls get_or_create_agent and the entry (after the eviction   *)
(* of lines 45-49) is cached: it is returned at once (lines 51-52).        *)
GetCached(project, user_id, request) ==
    LET agent_key == AgentKey(project, user_id)
        cache == EvictForPrompt(user_agents, agent_key, request.prompt)
    IN /\ agent_key \in DOMAIN cache
       /\ last_call' = Some(CallRecord(agent_key, request.prompt,
                                       agent_key \in DOMAIN user_agents,
                                       Get(user_agents, agent_key),
                                       cache[agent_key], Get(cache, agent_key)))
       /\ user_agents' = Put(cache, agent_key,
                             RouteEffect(cache[agent_key], request, now))
       /\ last_sweep' = None
       /\ last_response' = None
       /\ UNCHANGED <<now, suspended, allow_file_write>>

CallHit ==
    \E project \in Projects, user_id \in Users, request \in Requests :
        GetCached(project, user_id, request)

(* A miss for a project without external tools: the agent is built and     *)
(* stored without suspending (lines 54-118).                               *)
CreateAgent(project, user_id, request) ==
    LET agent_key == AgentKey(project, user_id)
        cache == EvictForPrompt(user_agents, agent_key, request.prompt)
        agent == NewAgent(project, user_id, request.prompt, << >>)
        stored == Put(cache, agent_key, agent)
    IN /\ agent_key \notin DOMAIN cache
       /\ last_call' = Some(CallRecord(agent_key, request.prompt,
                                       agent_key \in DOMAIN user_agents,
                                       Get(user_agents, agent_key),
                                       agent, Get(stored, agent_key)))
       /\ user_agents' = Put(stored, agent_key, RouteEffect(agent, request, now))
       /\ last_sweep' = None
       /\ last_response' = None
       /\ UNCHANGED <<now, suspended, allow_file_write>>

CallCreate ==
    \E project \in Projects \ ExternalToolProjects, user_id \in Users,
       request \in Requests :
        CreateAgent(project, user_id, request)

(* A miss for a project with external tools: after the eviction the call   *)
(* suspends at load_tools_from_endpoint (line 79).                         *)
CallSuspend ==
    \E project \in ExternalToolProjects, user_id \in Users, request \in Requests :
        LET agent_key == AgentKey(project, user_id)
            cache == EvictForPrompt(user_agents, agent_key, request.prompt)
            frame == [project |-> project, user_id |-> user_id, request |-> request,
                      existed |-> agent_key \in DOMAIN user_agents]
        IN /\ agent_key \notin DOMAIN cache
           /\ Cardinality(suspended) < MaxSuspended
           /\ frame \notin suspended
           /\ suspended' = suspended \cup {frame}
           /\ user_agents' = cache
           /\ last_call' = None
           /\ last_sweep' = None
           /\ last_response' = None
           /\ UNCHANGED <<now, allow_file_write>>

(* The suspended call resumes: the agent is built, stored under the key    *)
(* (whatever is cached there by now) and returned (lines 85-118).          *)
CallResumeWith(project_tools) ==
    \E frame \in suspended :
        LET agent_key == AgentKey(frame.project, frame.user_id)
            agent == NewAgent(frame.project, frame.user_id, frame.request.prompt,
                              project_tools)
            stored == Put(user_agents, agent_key, agent)
        IN /\ suspended' = suspended \ {frame}
           /\ last_call' = Some(CallRecord(agent_key, frame.request.prompt,
                                           frame.existed, None,
                                           agent, Get(stored, agent_key)))
           /\ user_agents' = Put(stored, agent_key,
                                 RouteEffect(agent, frame.request, now))
           /\ last_sweep' = None
           /\ last_response' = None
           /\ UNCHANGED <<now, allow_file_write>>

(* The load succeeded.                                                     *)
CallResume == CallResumeWith(ExternalTools)

(* The load raised and the warning of line 83 was logged.                  *)
CallResumeNoTools == CallResumeWith(<< >>)

(* The routes' handling of a request without a user id                     *)
(* (server/routes/init.py:30-68, server/routes/agent.py:121-191).          *)
HTTPException(status_code, detail) ==
    Raised([type |-> "HTTPException", status_code |-> status_code, detail |-> detail])

Routes == { "init", "chat", "chat_stream" }

(* The user ids that are absent (None) or empty.                           *)
MissingUserIds == { None, Some(<< >>) }

(* The handler's try block up to the user id check.                        *)
CheckUserId(route, user_id) ==
    IF user_id = None \/ user_id[1] = << >>
    THEN HTTPException(400, "User ID is required")
    ELSE Returned(TRUE)

(* `except Exception as e: raise HTTPException(status_code=500, ...)`:     *)
(* HTTPException is a subclass of Exception, so the clause catches it.     *)
ExceptException(outcome) ==
    IF outcome.raised THEN HTTPException(500, outcome.message.detail) ELSE outcome

(* The response to a request whose user id is missing.  The body model of  *)
(* /init declares user_id: str, so an absent one fails validation (422)    *)
(* before the handler runs.                                                *)
MissingUserResponse(route, user_id) ==
    IF route = "init" /\ user_id = None
    THEN [status_code |-> 422]
    ELSE [status_code |-> ExceptException(CheckUserId(route, user_id)).message.status_code]

CallWithoutUser ==
    \E route \in Routes, user_id \in MissingUserIds :
        /\ last_response' = Some([route |-> route, user_id |-> user_id,
                                  response |-> MissingUserResponse(route, user_id),
                                  before |-> user_agents])
        /\ last_call' = None
        /\ last_sweep' = None
        /\ UNCHANGED <<user_agents, now, suspended, allow_file_write>>

(* cleanup_task (cleanup.py:20-46): has_recent_activity of one agent.      *)
HasRecentActivityAll(agent, cutoff_time) ==
    \A session \in DOMAIN agent.conversations :
        agent.conversations[session].updated_at > cutoff_time

HasRecentActivity(agent, cutoff_time) ==
    \E session \in DOMAIN agent.conversations :
        agent.conversations[session].updated_at > cutoff_time

(* The sweep: every agent without recent activity is deleted.              *)
cleanup_task(cache, time) ==
    LET cutoff_time == time - OneHour
        inactive_agents == { agent_key \in DOMAIN cache :
                               ~HasRecentActivity(cache[agent_key], cutoff_time) }
    IN [agent_key \in DOMAIN cache \ inactive_agents |-> cache[agent_key]]

CleanupInactive ==
    /\ user_agents # EmptyDict
    /\ user_agents' = cleanup_task(user_agents, now)
    /\ last_sweep' = Some([before |-> user_agents, at |-> now])
    /\ last_response' = None
    /\ last_call' = None
    /\ UNCHANGED <<now, suspended, allow_file_write>>

(* DELETE /user/{user_id}/agents (cleanup.py:52-75): every key ending in   *)
(* ":{user_id}" is deleted.                                                *)
EndsWith(seq, suffix) ==
    /\ Len(seq) >= Len(suffix)
    /\ SubSeq(seq, Len(seq) - Len(suffix) + 1, Len(seq)) = suffix

CleanupUser(user_id) ==
    /\ \E agent_key \in DOMAIN user_agents : EndsWith(agent_key, <<":">> \o user_id)
    /\ user_agents' = [agent_key \in { k \in DOMAIN user_agents :
                                         ~EndsWith(k, <<":">> \o user_id) }
                         |-> user_agents[agent_key]]
    /\ last_call' = None
    /\ last_sweep' = None
    /\ last_response' = None
    /\ UNCHANGED <<now, suspended, allow_file_write>>

CleanupUserAgents == \E user_id \in Users : CleanupUser(user_id)

(* Time passes.                                                            *)
Tick ==
    /\ now < MaxTime
    /\ now' = now + 1
    /\ last_call' = None
    /\ last_sweep' = None
    /\ last_response' = None
    /\ UNCHANGED <<user_agents, suspended, allow_file_write>>

-----------------------------------------------------------------------------
(* POST /upload (api/routes/documents.py:41-131).                          *)
MaxFiles == 2       \* files of one upload request
MaxUploads == 2     \* upload requests in flight at the same time

(* MAX_FILE_SIZE, 4.5 MB, in units of half a megabyte.                     *)
MAX_FILE_SIZE == 9

ApiUsers == { "alice", "bob" }

(* File contents: the bytes and their length.                              *)
Contents ==
    { [bytes |-> "c1", size |-> 1], [bytes |-> "c2", size |-> 1],
      [bytes |-> "big", size |-> 10] }

Extensions == { ".pdf", ".txt" }
ALLOWED_EXTENSIONS == { ".pdf" }

UploadFiles ==
    { [filename |-> <<"a", ".pdf">>, content |-> c] : c \in Contents }
    \cup { [filename |-> <<"a", ".txt">>, content |-> Contents_c] :
             Contents_c \in { c \in Contents : c.bytes = "c1" } }

(* hashlib.sha256(content).hexdigest(): a digest determined by the bytes,  *)
(* different bytes giving different digests.                               *)
Sha256(content) == <<"sha256", content.bytes>>

(* validate_file (lines 25-39) and the length check of lines 66-70: the    *)
(* HTTPException raised for this file, if any.                             *)
validate_file(file) ==
    IF file.filename[2] \notin ALLOWED_EXTENSIONS
    THEN Raised("Only PDF files are allowed")
    ELSE IF file.content.size > MAX_FILE_SIZE
         THEN Raised("File size exceeds maximum limit")
         ELSE Returned(TRUE)

(* Lines 76-79: the first document of the user with this hash, if any.     *)
ExistingDocNever(rows, user_id, file_hash) == None

ExistingDoc(rows, user_id, file_hash) ==
    LET matching == SelectSeq(rows, LAMBDA d : d.user_id = user_id
                                               /\ d.file_hash = file_hash)
    IN IF matching = << >> THEN None ELSE Some(Head(matching))

(* Lines 96-107: the Document row inserted; uuid4 gives a fresh id.        *)
Document(rows, user_id, file) ==
    [id |-> Len(rows) + 1, user_id |-> user_id,
     title |-> file.filename, file_hash |-> Sha256(file.content),
     processing_status |-> "pending"]

NoUpload == [state |-> "free"]

UploadIdle ==
    /\ documents = << >>
    /\ jobs = {}
    /\ uploads = [slot \in 1..MaxUploads |-> NoUpload]
    /\ last_file = None

(* A request arrives with its files (the empty and the over-long batch     *)
(* are rejected at lines 50-54 before anything happens).  Only the number  *)
(* of files still to handle is kept; each file is drawn when its turn      *)
(* comes.                                                                  *)
UploadStart ==
    \E slot \in 1..MaxUploads, user \in ApiUsers, n \in 1..MaxFiles :
        /\ uploads[slot] = NoUpload
        /\ uploads' = [uploads EXCEPT ![slot] =
                          [state |-> "running", current_user |-> user, remaining |-> n]]
        /\ last_file' = None
        /\ UNCHANGED <<documents, jobs>>

(* One iteration of the loop over the files (lines 59-126).  The request   *)
(* can be suspended at "await file.read()" only: the duplicate query, the  *)
(* insert, the commit and the scheduling run without interruption.  An     *)
(* HTTPException ends the request.                                         *)
HandleFile(slot) ==
    \E file \in UploadFiles :
        LET u == uploads[slot] IN
        /\ u.state = "running"
        /\ u.remaining > 0
        /\ LET valid == validate_file(file)
               file_hash == Sha256(file.content)
               existing_doc == ExistingDoc(documents, u.current_user, file_hash)
               document == Document(documents, u.current_user, file)
               step(entry) == Some([current_user |-> u.current_user, file |-> file,
                                    rows |-> documents, scheduled |-> jobs,
                                    entry |-> entry])
           IN IF valid.raised
              THEN /\ uploads' = [uploads EXCEPT ![slot] = NoUpload]
                   /\ last_file' = None
                   /\ UNCHANGED <<documents, jobs>>
              ELSE IF existing_doc # None
              THEN /\ uploads' = [uploads EXCEPT ![slot].remaining = u.remaining - 1]
                   /\ last_file' = step([id |-> existing_doc[1].id, status |-> "duplicate"])
                   /\ UNCHANGED <<documents, jobs>>
              ELSE /\ documents' = Append(documents, document)
                   /\ jobs' = jobs \cup {document.id}
                   /\ uploads' = [uploads EXCEPT ![slot].remaining = u.remaining - 1]
                   /\ last_file' = step([id |-> document.id, status |-> "pending"])

UploadFile == \E slot \in 1..MaxUploads : HandleFile(slot)

(* Lines 128-131: the response after the last file.                        *)
Respond(slot) ==
    /\ uploads[slot].state = "running"
    /\ uploads[slot].remaining = 0
    /\ uploads' = [uploads EXCEPT ![slot] = NoUpload]
    /\ last_file' = None
    /\ UNCHANGED <<documents, jobs>>

UploadFinish == \E slot \in 1..MaxUploads : Respond(slot)

-----------------------------------------------------------------------------
(* Calendar events: the HTTP resource API (api/routes/calendar.py) and the *)
(* agent tools (api/routes/agent_tools.py).  A row keeps the columns the   *)
(* suggestion workflow reads or writes; created_status records the status  *)
(* the row was inserted with.                                              *)
MaxEvents == 2      \* rows inserted in one run

CalendarEvent(user_id, status, source, suggestion_reason, suggestion_confidence, suggested_by, parent_event_id) ==
    [user_id |-> user_id, title |-> "trip", status |-> status, source |-> source,
     suggestion_reason |-> suggestion_reason,
     suggestion_confidence |-> suggestion_confidence,
     user_feedback |-> None, suggested_by |-> suggested_by,
     parent_event_id |-> parent_event_id, created_status |-> status]

(* The status pattern of CalendarEventCreate and CalendarEventUpdate       *)
(* (calendar.py:25, 41) restricted to the statuses the workflow uses.      *)
RequestStatuses == { "confirmed", "suggested" }

(* The owner the calendar calls are made for.                              *)
CalendarUsers == ApiUsers

(* db.add + db.commit of a new row; uuid4 gives a fresh id.                *)
Insert(rows, id, row) == [x \in DOMAIN rows \cup {id} |-> IF x = id THEN row ELSE rows[x]]

(* db.delete + db.commit: the row goes, and the rows that named it as      *)
(* parent_event (the suggested_events backref, calendar_event.py:50) get a *)
(* null parent_event_id.                                                   *)
Delete(rows, id) ==
    [x \in DOMAIN rows \ {id} |->
        IF rows[x].parent_event_id = Some(id)
        THEN [rows[x] EXCEPT !.parent_event_id = None]
        ELSE rows[x]]

(* "x or default" of Python for an optional string.                        *)
OrDefaultNoneOnly(value, default) == IF value = None THEN default ELSE value[1]

OrDefault(value, default) ==
    IF value = None \/ value = Some("") THEN default ELSE value[1]

CalendarIdle ==
    /\ calendar_events = [x \in {} |-> 0]
    /\ next_event_id = 1
    /\ last_approval = None

(* POST /events (calendar.py:161-214): the body's status and suggestion    *)
(* fields are stored as given.                                             *)
create_event ==
    \E current_user \in CalendarUsers,
       event_data \in { [status |-> "confirmed", suggestion_reason |-> None,
                         suggestion_confidence |-> None, suggested_by |-> None],
                        [status |-> "suggested", suggestion_reason |-> None,
                         suggestion_confidence |-> None, suggested_by |-> None],
                        [status |-> "suggested", suggestion_reason |-> Some("fits the trip"),
                         suggestion_confidence |-> Some(8), suggested_by |-> Some("agent")] } :
        /\ next_event_id <= MaxEvents
        /\ calendar_events' = Insert(calendar_events, next_event_id,
               CalendarEvent(current_user, event_data.status, "manual",
                             event_data.suggestion_reason, event_data.suggestion_confidence,
                             event_data.suggested_by, None))
        /\ next_event_id' = next_event_id + 1
        /\ last_approval' = None

(* PUT /events/{event_id} (calendar.py:216-246) with a status in the body. *)
update_event ==
    \E current_user \in CalendarUsers, event_id \in DOMAIN calendar_events,
       status \in RequestStatuses :
        /\ calendar_events[event_id].user_id = current_user
        /\ calendar_events' = [calendar_events EXCEPT ![event_id].status = status]
        /\ last_approval' = None
        /\ UNCHANGED next_event_id

(* DELETE /events/{event_id} (calendar.py:248-272).                        *)
delete_event ==
    \E current_user \in CalendarUsers, event_id \in DOMAIN calendar_events :
        /\ calendar_events[event_id].user_id = current_user
        /\ calendar_events' = Delete(calendar_events, event_id)
        /\ last_approval' = None
        /\ UNCHANGED next_event_id

(* POST /events/suggest (calendar.py:326-379): SuggestedEventCreate        *)
(* requires a reason of at least one character and a confidence in 1..10.  *)
SuggestEvent(max_events) ==
    \E current_user \in CalendarUsers, suggestion_confidence \in {10} :
        /\ next_event_id <= max_events
        /\ calendar_events' = Insert(calendar_events, next_event_id,
               CalendarEvent(current_user, "suggested", "agent", Some("fits the trip"),
                             Some(suggestion_confidence), Some("agent"), None))
        /\ next_event_id' = next_event_id + 1
        /\ last_approval' = None

create_suggested_event == SuggestEvent(MaxEvents)

(* POST /events/{event_id}/approve (calendar.py:382-441).                  *)
ApproveSuggestion(max_events) ==
    \E current_user \in CalendarUsers, event_id \in DOMAIN calendar_events,
       approved \in BOOLEAN,
       user_feedback \in { None, Some(""), Some("looks good") } :
        LET event == calendar_events[event_id] IN
        /\ approved \/ user_feedback = None
        /\ event.user_id = current_user
        /\ event.status = "suggested"
        /\ IF approved
           THEN /\ next_event_id <= max_events
                /\ calendar_events' =
                     Insert([calendar_events EXCEPT ![event_id].user_feedback =
                                Some(OrDefault(user_feedback, "Approved"))],
                            next_event_id,
                            [CalendarEvent(current_user, "confirmed", "approved_suggestion",
                                           None, None, None, Some(event_id))
                                EXCEPT !.title = event.title])
                /\ next_event_id' = next_event_id + 1
                /\ last_approval' = Some([event_id |-> event_id,
                                          user_feedback |-> user_feedback,
                                          rows |-> calendar_events])
           ELSE /\ calendar_events' = [calendar_events EXCEPT
                     ![event_id].user_feedback = Some(OrDefault(user_feedback, "Rejected")),
                     ![event_id].status = "cancelled"]
                /\ last_approval' = None
                /\ UNCHANGED next_event_id

approve_suggested_event == ApproveSuggestion(MaxEvents)

(* Suggestions and their approvals alone, with room for a third row.       *)
MaxRows == 3        \* rows of calendar_events when only suggestions are handled

SuggestRow == SuggestEvent(MaxRows)
ApproveRow == ApproveSuggestion(MaxRows)

(* DELETE /events/{event_id}/suggestion (calendar.py:443-468).             *)
delete_suggested_event ==
    \E current_user \in CalendarUsers, event_id \in DOMAIN calendar_events :
        /\ calendar_events[event_id].user_id = current_user
        /\ calendar_events[event_id].status = "suggested"
        /\ calendar_events' = Delete(calendar_events, event_id)
        /\ last_approval' = None
        /\ UNCHANGED next_event_id

(* The create_calendar_event tool (agent_tools.py:543-665): the status     *)
(* parameter is stored as given, "confirmed" when absent.                  *)
create_user_calendar_event ==
    \E user_uuid \in CalendarUsers, status \in { None, Some("suggested") } :
        /\ next_event_id <= MaxEvents
        /\ calendar_events' = Insert(calendar_events, next_event_id,
               CalendarEvent(user_uuid, IF status = None THEN "confirmed" ELSE status[1],
                             "agent_created", None, None, None, None))
        /\ next_event_id' = next_event_id + 1
        /\ last_approval' = None

(* The update_calendar_event tool (agent_tools.py:668-775) with a status   *)
(* among its parameters.                                                   *)
update_user_calendar_event ==
    \E user_uuid \in CalendarUsers, event_id \in DOMAIN calendar_events,
       status \in RequestStatuses :
        /\ calendar_events[event_id].user_id = user_uuid
        /\ calendar_events' = [calendar_events EXCEPT ![event_id].status = status]
        /\ last_approval' = None
        /\ UNCHANGED next_event_id

(* The delete_calendar_event tool (agent_tools.py:778-851).                *)
delete_user_calendar_event ==
    \E user_uuid \in CalendarUsers, event_id \in DOMAIN calendar_events :
        /\ calendar_events[event_id].user_id = user_uuid
        /\ calendar_events' = Delete(calendar_events, event_id)
        /\ last_approval' = None
        /\ UNCHANGED next_event_id

(* The suggest_calendar_event tool (agent_tools.py:854-1000): a missing or *)
(* empty reason, or a confidence that is not an integer in 1..10, is       *)
(* answered with an error and inserts nothing.                             *)
suggest_user_calendar_event ==
    \E user_uuid \in CalendarUsers, suggestion_reason \in { None, Some(""), Some("fits the trip") },
       suggestion_confidence \in { 0, 7, 11 } :
        /\ next_event_id <= MaxEvents
        /\ last_approval' = None
        /\ IF suggestion_reason \in { None, Some("") }
              \/ ~(1 <= suggestion_confidence /\ suggestion_confidence <= 10)
           THEN UNCHANGED <<calendar_events, next_event_id>>
           ELSE /\ calendar_events' = Insert(calendar_events, next_event_id,
                      CalendarEvent(user_uuid, "suggested", "agent_suggested",
                                    suggestion_reason, Some(suggestion_confidence),
                                    Some("agent"), None))
                /\ next_event_id' = next_event_id + 1

-----------------------------------------------------------------------------
(* UserMigrationService.get_accessible_user_id                             *)
(* (api/services/user_migration.py:19-107) over the users table and the    *)
(* documents table.                                                        *)
MaxCalls == 3       \* entries of the log of calls
MaxDevDocs == 2     \* documents uploaded in the development user's session

(* The ids uuid4 hands out to new users, in order.                         *)
UserIds == << "alice", "bob", "carol", "dave" >>

Emails == { "dev@example.com", "Augu144@Gmail.com", "eve@example.org" }

(* str.lower() on the addresses in use.                                    *)
Lower(email) == IF email = "Augu144@Gmail.com" THEN "augu144@gmail.com" ELSE email

authorized_emails == { "augu144@gmail.com", "saharcarmel@gmail.com", "dev@example.com" }

User(rows, vercel_user_id, email) ==
    [id |-> UserIds[Cardinality(rows) + 1], vercel_user_id |-> vercel_user_id,
     email |-> email]

(* Line 31: the user with this email, compared as stored.                  *)
FindUserLowercased(rows, email) ==
    LET found == { u \in rows : u.email = Lower(email) }
    IN IF found = {} THEN None ELSE Some(CHOOSE u \in found : TRUE)

FindUser(rows, email) ==
    LET found == { u \in rows : u.email = email }
    IN IF found = {} THEN None ELSE Some(CHOOSE u \in found : TRUE)

(* _handle_empty_user (lines 53-86): the documents table after the call.   *)
handle_empty_user(user_rows, document_rows, user_id, email) ==
    LET dev_user == { u \in user_rows : u.vercel_user_id = "dev_user_1" }
    IN IF Lower(email) \in { Lower(e) : e \in authorized_emails } /\ dev_user # {}
       THEN [i \in DOMAIN document_rows |->
               IF document_rows[i].user_id \in { u.id : u \in dev_user }
               THEN [document_rows[i] EXCEPT !.user_id = user_id]
               ELSE document_rows[i]]
       ELSE document_rows

(* get_accessible_user_id: the returned id and both tables after the call. *)
get_accessible_user_id(user_rows, document_rows, email) ==
    LET user == FindUser(user_rows, email)
        new_user == User(user_rows, email, email)
        doc_count(user_id) == Cardinality({ i \in DOMAIN document_rows :
                                              document_rows[i].user_id = user_id })
    IN IF user # None
       THEN IF doc_count(user[1].id) > 0
            THEN [returned |-> Some(user[1].id), users |-> user_rows,
                  documents |-> document_rows]
            ELSE [returned |-> Some(user[1].id), users |-> user_rows,
                  documents |-> handle_empty_user(user_rows, document_rows,
                                                  user[1].id, email)]
       ELSE [returned |-> Some(new_user.id), users |-> user_rows \cup {new_user},
             documents |-> handle_empty_user(user_rows \cup {new_user}, document_rows,
                                             new_user.id, email)]

MigrationIdle ==
    /\ users = {}
    /\ mig_calls = << >>

(* A tool handler resolves its caller (agent_tools.py:64 and the like).    *)
GetAccessibleUserId ==
    \E email \in Emails :
        LET result == get_accessible_user_id(users, documents, email) IN
        /\ Len(mig_calls) < MaxCalls
        /\ users' = result.users
        /\ documents' = result.documents
        /\ mig_calls' = Append(mig_calls,
               [kind |-> "call", email |-> email, returned |-> result.returned,
                users_before |-> users, documents_before |-> documents,
                users |-> result.users, documents |-> result.documents])
        /\ UNCHANGED <<jobs, uploads, last_file>>

(* A document is uploaded in the development user's session:               *)
(* get_development_user (api/services/auth.py:133-148) creates the user    *)
(* when it is missing, upload_documents inserts the row.                   *)
DevUpload ==
    \E file \in { f \in UploadFiles : ~validate_file(f).raised } :
        LET existing == { u \in users : u.vercel_user_id = "dev_user_1" }
            dev_user == IF existing = {} THEN User(users, "dev_user_1", "dev@example.com")
                        ELSE CHOOSE u \in existing : TRUE
            document == Document(documents, dev_user.id, file)
        IN /\ Len(mig_calls) < MaxCalls
           /\ Len(documents) < MaxDevDocs
           /\ ExistingDoc(documents, dev_user.id, Sha256(file.content)) = None
           /\ users' = users \cup {dev_user}
           /\ documents' = Append(documents, document)
           /\ jobs' = jobs \cup {document.id}
           /\ mig_calls' = Append(mig_calls, [kind |-> "upload"])
           /\ UNCHANGED <<uploads, last_file>>

-----------------------------------------------------------------------------
(* The document tools search_documents and get_document                    *)
(* (api/routes/agent_tools.py:37-293).  The caller is already resolved to  *)
(* a user id (get_accessible_user_id above).                               *)
MaxLibrary == 3     \* processed documents in the table
DefaultLimit == 10
LimitCap == 50

(* Texts are sequences of words; lower-casing is word by word.             *)
LowerWord(word) ==
    IF word = "Flight" THEN "flight" ELSE IF word = "Hotel" THEN "hotel" ELSE word

LowerText(text) == [i \in DOMAIN text |-> LowerWord(text[i])]

(* column.ilike("%pattern%"): a case-insensitive substring; NULL matches   *)
(* nothing.                                                                *)
ILike(column, pattern) ==
    /\ column # None
    /\ \E i \in 1..(Len(column[1]) - Len(pattern) + 1) :
          SubSeq(LowerText(column[1]), i, i + Len(pattern) - 1) = LowerText(pattern)

(* What document processing stores for a file.                             *)
ProcessedDocuments ==
    { [title |-> Some(<<"Flight", "ticket">>), raw_text |-> Some(<<"flight", "to", "bangkok">>),
       summary |-> None, category |-> Some(<<"flight">>)],
      [title |-> Some(<<"Hotel", "booking">>), raw_text |-> Some(<<"hotel", "in", "bangkok">>),
       summary |-> Some(<<"two", "nights">>), category |-> Some(<<"hotel">>)],
      [title |-> Some(<<"notes">>), raw_text |-> None,
       summary |-> Some(<<"hotel", "near", "flight">>), category |-> None] }

Queries == { <<"bangkok">>, <<"Hotel">>, <<"flight">>, << >> }
CategoryFilters == { None, Some(<<"hotel">>) }
Limits == { None, Some(1) }

Reverse(rows) == [i \in DOMAIN rows |-> rows[Len(rows) + 1 - i]]

(* .order_by(Document.created_at.desc()) over the user's rows.             *)
NewestFirst(rows, user_id) ==
    Reverse(SelectSeq(rows, LAMBDA d : d.user_id = user_id))

Limit(rows, limit) == SubSeq(rows, 1, IF limit < Len(rows) THEN limit ELSE Len(rows))

(* search_user_documents (lines 37-160): the documents of the response.    *)
search_documents(rows, user_id, query, category, limit) ==
    IF query = << >>
    THEN Raised("missing_query")
    ELSE LET matching == SelectSeq(NewestFirst(rows, user_id), LAMBDA d :
                 /\ \/ ILike(d.raw_text, query)
                    \/ ILike(d.title, query)
                    \/ ILike(d.summary, query)
                 /\ category # None => ILike(d.category, category[1]))
             capped == IF limit = None THEN DefaultLimit
                       ELSE IF limit[1] < LimitCap THEN limit[1] ELSE LimitCap
             results == Limit(matching, capped)
         IN Returned([idx \in DOMAIN results |->
                        [id |-> results[idx].id, ref |-> <<"doc_", idx>>,
                         title |-> results[idx].title]])

(* get_user_document (lines 165-285): the document of the response.        *)
get_document(rows, user_id, document_id) ==
    LET ordered == NewestFirst(rows, user_id)
        target == IF document_id[1] = "doc_"
                  THEN IF document_id[2] \in DOMAIN ordered
                       THEN Some(ordered[document_id[2]].id) ELSE None
                  ELSE Some(document_id[2])
        owned == IF target = None THEN << >>
                 ELSE SelectSeq(rows, LAMBDA d : d.id = target[1] /\ d.user_id = user_id)
    IN IF target = None THEN Raised("document_ref_not_found")
       ELSE IF owned = << >> THEN Raised("document_not_found")
       ELSE Returned([id |-> owned[1].id, title |-> owned[1].title,
                      content |-> owned[1].raw_text])

DocumentIds == { <<"doc_", n>> : n \in 1..MaxLibrary } \cup { <<"uuid", 1>> }

DocumentsIdle ==
    /\ library = << >>
    /\ last_search = None
    /\ last_get = None

(* Processing finishes for a document of some user: the data set changes.  *)
StoreDocument ==
    \E user_id \in ApiUsers, processed \in ProcessedDocuments :
        /\ Len(library) < MaxLibrary
        /\ library' = Append(library,
               [id |-> Len(library) + 1, user_id |-> user_id, created_at |-> Len(library) + 1,
                title |-> processed.title, raw_text |-> processed.raw_text,
                summary |-> processed.summary, category |-> processed.category])
        /\ last_search' = None
        /\ last_get' = None

search_user_documents ==
    \E query \in Queries, category \in CategoryFilters, limit \in Limits :
        /\ last_search' = Some([user_id |-> "alice", query |-> query,
                                category |-> category,
                                response |-> search_documents(library, "alice", query,
                                                              category, limit)])
        /\ UNCHANGED <<library, last_get>>

get_user_document ==
    \E document_id \in DocumentIds :
        /\ last_get' = Some([user_id |-> "alice", document_id |-> document_id,
                             response |-> get_document(library, "alice", document_id)])
        /\ UNCHANGED <<library, last_search>>

-----------------------------------------------------------------------------
(* The file tools (agent-infrastructure/src/tools/file_ops.py).  A path    *)
(* string is a sequence of pieces, "/" being a piece of its own, so that   *)
(* str.startswith is a prefix of pieces: "/tmp/sandbox_evil" is            *)
(* <<"/", "tmp", "/", "sandbox", "_evil">>.  There are no symbolic links.  *)
MaxFileLen == 2     \* pieces of content in one file

Cwd == << "/", "app" >>

StartsWith(string, prefix) ==
    /\ Len(prefix) <= Len(string)
    /\ SubSeq(string, 1, Len(prefix)) = prefix

RECURSIVE Components(_)
(* path.split("/") without the empty components.                           *)
Components(path) ==
    IF path = << >> THEN << >>
    ELSE IF Head(path) = "/" THEN Components(Tail(path))
    ELSE LET rest == Components(Tail(path))
         IN IF Len(path) > 1 /\ path[2] # "/"
            THEN << <<Head(path)>> \o Head(rest) >> \o Tail(rest)
            ELSE << <<Head(path)>> >> \o rest

RECURSIVE Normalize(_, _)
(* os.path.normpath on the components of an absolute path.                 *)
Normalize(done, components) ==
    IF components = << >> THEN done
    ELSE IF Head(components) = << "." >> THEN Normalize(done, Tail(components))
    ELSE IF Head(components) = << ".." >>
         THEN Normalize(IF done = << >> THEN done ELSE SubSeq(done, 1, Len(done) - 1),
                        Tail(components))
    ELSE Normalize(Append(done, Head(components)), Tail(components))

RECURSIVE Join(_)
Join(components) ==
    IF components = << >> THEN << >>
    ELSE << "/" >> \o Head(components) \o Join(Tail(components))

(* os.path.abspath: normpath(join(os.getcwd(), path)).                     *)
Abspath(path) ==
    LET absolute == IF path # << >> /\ Head(path) = "/" THEN path
                    ELSE Cwd \o << "/" >> \o path
        joined == Join(Normalize(<< >>, Components(absolute)))
    IN IF joined = << >> THEN << "/" >> ELSE joined

(* _is_allowed_path of the three tools (lines 104-116, 205-217, 311-323).  *)
is_allowed_path_always(allowed, file_path) == TRUE

is_allowed_path(allowed, file_path) ==
    IF allowed = << >> THEN TRUE
    ELSE \E i \in DOMAIN allowed : StartsWith(Abspath(file_path), Abspath(allowed[i]))

FileResult(success, error, metadata) ==
    ToolResult(success, "", error, metadata, None)

IsDir(files, path) ==
    \/ path = << "/" >>
    \/ \E f \in DOMAIN files : f # path /\ StartsWith(f, path \o << "/" >>)

FilePaths ==
    { << "/", "etc", "/", "passwd" >>,
      << "/", "tmp", "/", "sandbox", "/", "a" >>,
      << "/", "tmp", "/", "sandbox", "/", "..", "/", "b" >>,
      << "/", "tmp", "/", "sandbox", "_evil", "/", "a" >>,
      << "/", "tmp", "/", "sandbox" >>,
      << "notes" >> }

AllowedPathLists ==
    { << >>,
      << << "/", "tmp", "/", "sandbox" >> >>,
      << << "/", "tmp", "/", "sandbox", "/" >>, << "." >> >> }

InitialFiles ==
    (<< "/", "etc", "/", "passwd" >> :> << "root" >>)
    @@ (<< "/", "tmp", "/", "sandbox", "/", "a" >> :> << "x" >>)

(* ReadFileTool.execute (lines 42-102).                                    *)
read_file(allowed, files, file_path, max_chars) ==
    LET path == Abspath(file_path) IN
    IF ~is_allowed_path(allowed, file_path)
    THEN [result |-> FileResult(FALSE, Some("forbidden_path"), None), files |-> files,
          accessed |-> FALSE]
    ELSE IF path \notin DOMAIN files /\ ~IsDir(files, path)
    THEN [result |-> FileResult(FALSE, Some("file_not_found"), None), files |-> files,
          accessed |-> TRUE]
    ELSE IF path \notin DOMAIN files
    THEN [result |-> FileResult(FALSE, Some("not_a_file"), None), files |-> files,
          accessed |-> TRUE]
    ELSE LET content == SubSeq(files[path], 1,
                               IF max_chars < Len(files[path]) THEN max_chars
                               ELSE Len(files[path]))
         IN [result |-> FileResult(TRUE, None,
                           Some([content |-> content, file_size |-> Len(files[path]),
                                 truncated |-> Len(content) >= max_chars])),
             files |-> files, accessed |-> TRUE]

(* WriteFileTool.execute (lines 152-203).                                  *)
write_file(allowed, files, file_path, content, mode) ==
    LET path == Abspath(file_path)
        written == IF mode = "append" /\ path \in DOMAIN files
                   THEN files[path] \o content ELSE content
    IN
    IF ~is_allowed_path(allowed, file_path)
    THEN [result |-> FileResult(FALSE, Some("forbidden_path"), None), files |-> files,
          accessed |-> FALSE]
    ELSE IF IsDir(files, path)
    THEN [result |-> FileResult(FALSE, Some("IsADirectoryError"), None), files |-> files,
          accessed |-> TRUE]
    ELSE [result |-> FileResult(TRUE, None,
                        Some([file_size |-> Len(written), mode |-> mode,
                              content_length |-> Len(content)])),
          files |-> [p \in DOMAIN files \cup {path} |->
                        IF p = path THEN written ELSE files[p]],
          accessed |-> TRUE]

(* ListDirectoryTool.execute (lines 259-334): the names found, as a set.   *)
list_directory(allowed, files, directory_path) ==
    LET path == Abspath(directory_path)
        inside == IF path = << "/" >> THEN path ELSE path \o << "/" >>
        names == { Components(SubSeq(f, Len(inside) + 1, Len(f)))[1] :
                     f \in { g \in DOMAIN files : StartsWith(g, inside) } }
    IN
    IF ~is_allowed_path(allowed, directory_path)
    THEN [result |-> FileResult(FALSE, Some("forbidden_path"), None), files |-> files,
          accessed |-> FALSE]
    ELSE IF path \notin DOMAIN files /\ ~IsDir(files, path)
    THEN [result |-> FileResult(FALSE, Some("directory_not_found"), None), files |-> files,
          accessed |-> TRUE]
    ELSE IF path \in DOMAIN files
    THEN [result |-> FileResult(FALSE, Some("not_a_directory"), None), files |-> files,
          accessed |-> TRUE]
    ELSE [result |-> FileResult(TRUE, None, Some([items |-> names,
                                                   count |-> Cardinality(names)])),
          files |-> files, accessed |-> TRUE]

FileIdle ==
    /\ allowed_paths = << >>
    /\ fs = InitialFiles
    /\ last_op = None

InitFile ==
    /\ allowed_paths \in AllowedPathLists
    /\ fs = InitialFiles
    /\ last_op = None

FileOp(tool, file_path, outcome) ==
    /\ fs' = outcome.files
    /\ last_op' = Some([tool |-> tool, file_path |-> file_path,
                        result |-> outcome.result, accessed |-> outcome.accessed,
                        changed |-> outcome.files # fs])
    /\ UNCHANGED allowed_paths

ReadFile ==
    \E file_path \in FilePaths, max_chars \in {1, 10000} :
        FileOp("read_file", file_path, read_file(allowed_paths, fs, file_path, max_chars))

WriteFile ==
    \E file_path \in FilePaths, mode \in {"write", "append"} :
        LET outcome == write_file(allowed_paths, fs, file_path, << "x" >>, mode) IN
        /\ \A p \in DOMAIN outcome.files : Len(outcome.files[p]) <= MaxFileLen
        /\ FileOp("write_file", file_path, outcome)

ListDirectory ==
    \E directory_path \in FilePaths :
        FileOp("list_directory", directory_path,
               list_directory(allowed_paths, fs, directory_path))

-----------------------------------------------------------------------------
(* The processing of one uploaded document: process_document_async         *)
(* (api/services/document_processor.py:33-113), POST /{id}/reprocess,      *)
(* DELETE /{id} and the status stream (api/routes/documents.py:231-419).   *)
MaxPasses == 2      \* reprocess requests accepted in one run
MaxPolls == 3       \* polls of one status stream

(* What _extract_text does: returns markdown, returns "", or raises.       *)
Extractions ==
    { Returned(<< "flight", "to", "bangkok" >>), Returned(<< >>),
      Raised("Text extraction failed: bad pdf") }

(* The entries of the "quick_refs" object of an AI result.                 *)
QuickRefEntries ==
    { [field_name |-> "passenger",
       field_data |-> [type |-> "dict", value |-> Some("ann"), ftype |-> Some("text")]],
      [field_name |-> "total_amount",
       field_data |-> [type |-> "dict", value |-> Some("100"), ftype |-> None]],
      [field_name |-> "confirmation",
       field_data |-> [type |-> "dict", value |-> None, ftype |-> Some("text")]],
      [field_name |-> "destinations", field_data |-> [type |-> "none"]],
      [field_name |-> "travel_period", field_data |-> [type |-> "str"]] }

(* What _process_with_ai returns (lines 145-177): None when the call       *)
(* raised, {} when the reply held no JSON, else the decoded object, whose  *)
(* "quick_refs" is absent, not an object, or an object.                    *)
AiResults ==
    { None, Some([empty |-> TRUE]),
      Some([empty |-> FALSE, quick_refs |-> [type |-> "absent"]]),
      Some([empty |-> FALSE, quick_refs |-> [type |-> "list"]]),
      Some([empty |-> FALSE, quick_refs |-> [type |-> "dict", items |-> {}]]) }
    \cup { Some([empty |-> FALSE, quick_refs |-> [type |-> "dict", items |-> items]]) :
             items \in { { e \in QuickRefEntries : e.field_name \in names } :
                           names \in { {"passenger"}, {"total_amount", "destinations"},
                                       {"confirmation", "travel_period"} } } }

RECURSIVE SetToSeq(_)
SetToSeq(set) ==
    IF set = {} THEN << >>
    ELSE LET x == CHOOSE x \in set : TRUE IN << x >> \o SetToSeq(set \ {x})

(* Lines 84-97 (and 386-398): the DocumentQuickRef rows added for a result. *)
QuickRefsOf(document_id, ai_result) ==
    IF ai_result = None \/ ai_result[1].empty THEN << >>
    ELSE IF ai_result[1].quick_refs.type # "dict" THEN << >>
    ELSE LET rows == { [document_id |-> document_id, field_name |-> e.field_name,
                        field_value |-> IF e.field_data.value = None THEN ""
                                        ELSE e.field_data.value[1],
                        field_type |-> IF e.field_data.ftype = None THEN "text"
                                       ELSE e.field_data.ftype[1]] :
                         e \in { e \in ai_result[1].quick_refs.items :
                                   e.field_data.type = "dict" } }
         IN SetToSeq(rows)

(* Line 360: the rows left by the bulk delete.                             *)
ClearNothing(rows, document_id) == rows

ClearQuickRefs(rows, document_id) ==
    SelectSeq(rows, LAMBDA r : r.document_id # document_id)

(* The outcome of process_document_async once extraction is done, as the   *)
(* status and message the row ends with (lines 49-53, 99-113).             *)
(* The text _extract_text handed back, empty when it raised.               *)
ExtractedText(extraction) == IF extraction.raised THEN << >> ELSE extraction.value

ExtractionFailsNever(extraction) == None

ExtractionFails(extraction) ==
    IF extraction.raised THEN Some(extraction.message)
    ELSE IF extraction.value = << >> THEN Some("Failed to extract text from document")
    ELSE None

NewDocument ==
    [id |-> 1, user_id |-> "alice", processing_status |-> "pending",
     raw_text |-> None, error_message |-> None]

ProcessingIdle ==
    /\ pdoc = Some(NewDocument)
    /\ quick_ref_rows = << >>
    /\ proc_pc = "scheduled"
    /\ reproc_pc = "idle"
    /\ passes = 0
    /\ overlapped = FALSE
    /\ last_pass = None
    /\ stream_pc = "idle"
    /\ stream_user = "alice"
    /\ stream_events = << >>

InFlight == proc_pc \in {"started", "extracted"} \/ reproc_pc = "scheduled"

(* Lines 37-43: the job starts; a missing row ends it.                     *)
ProcessStart ==
    /\ proc_pc = "scheduled"
    /\ IF pdoc = None
       THEN /\ proc_pc' = "done"
            /\ UNCHANGED <<pdoc, overlapped>>
       ELSE /\ proc_pc' = "started"
            /\ pdoc' = Some([pdoc[1] EXCEPT !.processing_status = "processing"])
            /\ overlapped' = (overlapped \/ InFlight)
    /\ last_pass' = None
    /\ UNCHANGED <<quick_ref_rows, reproc_pc, passes, stream_pc, stream_user,
                   stream_events>>

(* Lines 47-53 and 105-113: extraction; a failure is caught by the outer   *)
(* handler.  A row deleted meanwhile ends the job with nothing written.    *)
ProcessExtract ==
    \E extraction \in Extractions :
        /\ proc_pc = "started"
        /\ IF pdoc = None
           THEN /\ proc_pc' = "done"
                /\ last_pass' = None
                /\ UNCHANGED pdoc
           ELSE IF ExtractionFails(extraction) # None
           THEN /\ proc_pc' = "done"
                /\ pdoc' = Some([pdoc[1] EXCEPT !.processing_status = "failed",
                                                !.error_message = ExtractionFails(extraction)])
                /\ last_pass' = Some([kind |-> "process", extraction |-> extraction,
                                      ai_result |-> None, before |-> quick_ref_rows])
           ELSE /\ proc_pc' = "extracted"
                /\ pdoc' = Some([pdoc[1] EXCEPT !.raw_text = Some(ExtractedText(extraction))])
                /\ last_pass' = None
        /\ UNCHANGED <<quick_ref_rows, reproc_pc, passes, overlapped, stream_pc,
                       stream_user, stream_events>>

(* Lines 56-101: the AI step, when a client is configured, and the final   *)
(* status.                                                                 *)
ProcessFinish ==
    \E claude_client \in BOOLEAN, ai \in AiResults :
        LET ai_result == IF claude_client THEN ai ELSE None IN
        /\ proc_pc = "extracted"
        /\ ~claude_client => ai = None
        /\ proc_pc' = "done"
        /\ IF pdoc = None
           THEN /\ last_pass' = None
                /\ UNCHANGED <<pdoc, quick_ref_rows>>
           ELSE /\ quick_ref_rows' = quick_ref_rows \o QuickRefsOf(pdoc[1].id, ai_result)
                /\ pdoc' = Some([pdoc[1] EXCEPT !.processing_status = "completed"])
                /\ last_pass' = Some([kind |-> "process",
                                      extraction |-> Returned(pdoc[1].raw_text[1]),
                                      ai_result |-> ai_result, before |-> quick_ref_rows])
        /\ UNCHANGED <<reproc_pc, passes, overlapped, stream_pc, stream_user,
                       stream_events>>

(* reprocess_document (lines 331-419), the request: 404 and 400 change     *)
(* nothing; otherwise the derived fields are reset, the quick refs are     *)
(* deleted and the background run is scheduled.                            *)
reprocess_document ==
    \E current_user \in ApiUsers :
        /\ passes < MaxPasses
        /\ reproc_pc = "idle"
        /\ pdoc # None
        /\ pdoc[1].user_id = current_user
        /\ pdoc[1].raw_text # None
        /\ pdoc' = Some([pdoc[1] EXCEPT !.processing_status = "processing",
                                        !.error_message = None])
        /\ quick_ref_rows' = ClearQuickRefs(quick_ref_rows, pdoc[1].id)
        /\ reproc_pc' = "scheduled"
        /\ passes' = passes + 1
        /\ overlapped' = (overlapped \/ InFlight)
        /\ last_pass' = None
        /\ UNCHANGED <<proc_pc, stream_pc, stream_user, stream_events>>

(* reprocess_with_ai (lines 364-411), the background run.                  *)
reprocess_with_ai ==
    \E claude_client \in BOOLEAN, ai \in AiResults :
        /\ reproc_pc = "scheduled"
        /\ ~claude_client => ai = None
        /\ reproc_pc' = "idle"
        /\ IF pdoc = None
           THEN /\ last_pass' = None
                /\ UNCHANGED <<pdoc, quick_ref_rows>>
           ELSE IF claude_client
           THEN /\ quick_ref_rows' = quick_ref_rows \o QuickRefsOf(pdoc[1].id, ai)
                /\ pdoc' = Some([pdoc[1] EXCEPT !.processing_status = "completed"])
                /\ last_pass' = Some([kind |-> "reprocess", extraction |-> None,
                                      ai_result |-> ai, before |-> quick_ref_rows])
           ELSE /\ pdoc' = Some([pdoc[1] EXCEPT
                                    !.processing_status = "failed",
                                    !.error_message = Some("AI processing unavailable")])
                /\ last_pass' = Some([kind |-> "reprocess", extraction |-> None,
                                      ai_result |-> None, before |-> quick_ref_rows])
                /\ UNCHANGED quick_ref_rows
        /\ UNCHANGED <<proc_pc, passes, overlapped, stream_pc, stream_user,
                       stream_events>>

(* delete_document (lines 231-255): the row goes, and its quick refs with  *)
(* it (cascade, models/document.py:44).                                    *)
delete_document ==
    /\ pdoc # None
    /\ pdoc' = None
    /\ quick_ref_rows' = ClearQuickRefs(quick_ref_rows, pdoc[1].id)
    /\ last_pass' = None
    /\ UNCHANGED <<proc_pc, reproc_pc, passes, overlapped, stream_pc, stream_user,
                   stream_events>>

(* GET /{id}/processing-status (lines 257-311): the stream is opened.      *)
get_processing_status ==
    \E current_user \in ApiUsers :
        /\ stream_pc = "idle"
        /\ stream_pc' = "polling"
        /\ stream_user' = current_user
        /\ UNCHANGED <<pdoc, quick_ref_rows, proc_pc, reproc_pc, passes, overlapped,
                       last_pass, stream_events>>

(* The events of one turn of event_generator's loop (lines 271-309).       *)
PollEventsCompletedOnly(document, current_user) ==
    IF document = None \/ document[1].user_id # current_user
    THEN << [event |-> "error"] >>
    ELSE << [event |-> "status", status |-> document[1].processing_status] >>
         \o (IF document[1].processing_status = "completed"
             THEN << [event |-> "complete", status |-> document[1].processing_status] >>
             ELSE << >>)

PollEvents(document, current_user) ==
    IF document = None \/ document[1].user_id # current_user
    THEN << [event |-> "error"] >>
    ELSE << [event |-> "status", status |-> document[1].processing_status] >>
         \o (IF document[1].processing_status \in {"completed", "failed"}
             THEN << [event |-> "complete", status |-> document[1].processing_status] >>
             ELSE << >>)

(* One poll; the generator returns after an error or a complete event.     *)
StreamPoll ==
    LET events == PollEvents(pdoc, stream_user) IN
    /\ stream_pc = "polling"
    /\ Cardinality({ i \in DOMAIN stream_events :
                       stream_events[i].event \in {"status", "error"} }) < MaxPolls
    /\ stream_events' = stream_events \o events
    /\ stream_pc' = IF events[Len(events)].event \in {"error", "complete"} THEN "ended"
                    ELSE "polling"
    /\ UNCHANGED <<pdoc, quick_ref_rows, proc_pc, reproc_pc, passes, overlapped,
                   last_pass, stream_user>>

-----------------------------------------------------------------------------
(* The chat bridge: KohTravelAgentService.send_message                     *)
(* (api/services/agent_service.py:69-101), which POSTs /init and then      *)
(* /chat to the agent infrastructure.                                      *)
MaxTurns == 3       \* send_message calls of the bridge

BridgeMessages == { << "first question" >>, << "second question" >> }

(* get_system_prompt (lines 20-38): the loaded prompt or the fallback,     *)
(* always a string.                                                        *)
BridgePrompt == "travel assistant prompt"

(* What the provider streams back for a turn without tool calls.           *)
BridgeReply == << ContentChunk("answer"), DoneChunk(Some(<< "answer" >>)) >>

(* Agent.get_conversation (core/agent.py:73-80).                           *)
get_conversation(agent, session_id) ==
    IF session_id \in DOMAIN agent.conversations
    THEN agent.conversations[session_id]
    ELSE [system_prompt |-> agent.system_prompt, messages |-> << >>, updated_at |-> 0]

(* Agent._build_messages_with_context (core/agent.py:154-180).             *)
build_messages_with_context(conversation) ==
    << Message("system", << conversation.system_prompt >>) >> \o conversation.messages

(* Agent.send_message (core/agent.py:86-152) on one session: the messages  *)
(* sent to the provider and the agent afterwards.                          *)
AgentTurn(agent, session_id, message, time, provider_chunks) ==
    LET conversation == get_conversation(agent, session_id)
        added == [conversation EXCEPT !.messages = Append(@, Message("user", message)),
                                      !.updated_at = time]
        recorded == [added EXCEPT !.messages = @ \o RecordAll(provider_chunks)]
    IN [sent |-> build_messages_with_context(added),
        agent |-> [agent EXCEPT !.conversations = Put(@, session_id, recorded)]]

BridgeIdle ==
    /\ turn = None
    /\ turn_log = << >>

(* initialize_agent (lines 44-67) succeeds: POST /init (init.py:30-61)     *)
(* calls get_or_create_agent with the system prompt.                       *)
BridgeInitialize ==
    \E user_id \in Users, session_id \in Sessions, message \in BridgeMessages :
        LET project == << "kohtravel" >>
            agent_key == AgentKey(project, user_id)
            cache == EvictForPrompt(user_agents, agent_key, Some(BridgePrompt))
            agent == IF agent_key \in DOMAIN cache THEN cache[agent_key]
                     ELSE NewAgent(project, user_id, Some(BridgePrompt), ExternalTools)
        IN /\ turn = None
           /\ Len(turn_log) < MaxTurns
           /\ user_agents' = Put(cache, agent_key, agent)
           /\ turn' = Some([user_id |-> user_id, session_id |-> session_id,
                            message |-> message])
           /\ UNCHANGED <<turn_log, now, suspended, last_call, last_sweep,
                          last_response, allow_file_write>>

(* initialize_agent fails (the POST raises): the except clause of lines    *)
(* 65-67 returns False and send_message goes on.                           *)
BridgeInitializeFails ==
    \E user_id \in Users, session_id \in Sessions, message \in BridgeMessages :
        /\ turn = None
        /\ Len(turn_log) < MaxTurns
        /\ turn' = Some([user_id |-> user_id, session_id |-> session_id,
                         message |-> message])
        /\ UNCHANGED <<turn_log, cacheVars>>

(* POST /chat (lines 81-96; server/routes/agent.py:121-149):               *)
(* get_or_create_agent without a prompt, then the agent's send_message.    *)
BridgeChat ==
    /\ turn # None
    /\ LET request == turn[1]
           project == << "kohtravel" >>
           agent_key == AgentKey(project, request.user_id)
           cache == EvictForPrompt(user_agents, agent_key, None)
           agent == IF agent_key \in DOMAIN cache THEN cache[agent_key]
                    ELSE NewAgent(project, request.user_id, None, ExternalTools)
           done == AgentTurn(agent, request.session_id, request.message, now, BridgeReply)
       IN /\ user_agents' = Put(cache, agent_key, done.agent)
          /\ turn_log' = Append(turn_log, [user_id |-> request.user_id,
                                           session_id |-> request.session_id,
                                           message |-> request.message,
                                           sent |-> done.sent])
    /\ turn' = None
    /\ UNCHANGED <<now, suspended, last_call, last_sweep, last_response,
                   allow_file_write>>

-----------------------------------------------------------------------------

(* The agent cache under project and user strings that may contain ':'.    *)
(* A string is the sequence of its tokens, ':' being one of them.          *)
ColonProjects == { << "a" >>, << "a", ":", "b" >> }
ColonUsers == { << "c" >>, << "b", ":", "c" >>, << "d" >> }

IsolationIdle ==
    /\ iso_call = None
    /\ iso_cleanup = None

(* POST /chat of a project without external tools                          *)
(* (server/routes/agent.py:121-149): get_or_create_agent, then the turn.   *)
IsolatedChat ==
    \E project \in ColonProjects, user_id \in ColonUsers, session \in Sessions :
        LET request == [route |-> "chat", prompt |-> None, session |-> session]
        IN /\ \/ GetCached(project, user_id, request)
              \/ CreateAgent(project, user_id, request)
           /\ iso_call' = Some([project |-> project, user_id |-> user_id,
                                session |-> session])
           /\ iso_cleanup' = None

(* DELETE /user/{user_id}/agents (cleanup.py:50-75).                       *)
IsolatedCleanup ==
    \E user_id \in ColonUsers :
        /\ CleanupUser(user_id)
        /\ iso_cleanup' = Some([user_id |-> user_id, before |-> user_agents])
        /\ iso_call' = None

-----------------------------------------------------------------------------

(* Concurrent POST /chat requests for one key of a project with external   *)
(* tools (server/routes/agent.py:121-149 calling lines 38-118).  Agents    *)
(* are objects: a request keeps the one get_or_create_agent returned to    *)
(* it, whatever the cache holds later.                                     *)
MaxRacers == 3      \* chat requests for the key

Racers == 1..MaxRacers
RaceProject == << "kohtravel" >>
RaceUser == << "u1" >>
RaceKey == AgentKey(RaceProject, RaceUser)

IdleCall == [pc |-> "idle", missed |-> FALSE, session |-> "", message |-> << >>, agent |-> 0]

RaceIdle ==
    /\ race_calls = [r \in Racers |-> IdleCall]
    /\ race_heap = << >>
    /\ race_cached = 0

(* The cache as the heap and the cached index give it.                     *)
CacheOf(heap, cached) ==
    IF cached = 0 THEN EmptyDict ELSE Put(EmptyDict, RaceKey, heap[cached])

(* Lines 51-52 find nothing and the call suspends at the tool load of line *)
(* 79.                                                                     *)
RaceMiss ==
    \E r \in Racers, session \in Sessions, message \in BridgeMessages :
        /\ race_calls[r].pc = "idle"
        /\ race_cached = 0
        /\ race_calls' = [race_calls EXCEPT ![r] =
               [pc |-> "loading", missed |-> TRUE, session |-> session,
                message |-> message, agent |-> 0]]
        /\ UNCHANGED <<race_heap, race_cached, cacheVars>>

(* Lines 51-52 return the cached object, and the handler's send_message    *)
(* adds the user message to its conversation (core/agent.py:92-98).        *)
RaceHit ==
    \E r \in Racers, session \in Sessions, message \in BridgeMessages :
        /\ race_calls[r].pc = "idle"
        /\ race_cached # 0
        /\ race_calls' = [race_calls EXCEPT ![r] =
               [pc |-> "done", missed |-> FALSE, session |-> session,
                message |-> message, agent |-> race_cached]]
        /\ race_heap' = [race_heap EXCEPT ![race_cached] =
               AgentTurn(@, session, message, now, BridgeReply).agent]
        /\ user_agents' = CacheOf(race_heap', race_cached)
        /\ UNCHANGED <<race_cached, now, suspended, last_call, last_sweep,
                       last_response, allow_file_write>>

(* The load returns: lines 85-118 build a new Agent, store it under the    *)
(* key and return it; the handler's send_message then adds the user        *)
(* message to that object (no suspension point in between).                *)
RaceResume ==
    \E r \in Racers :
        LET call == race_calls[r]
            agent == NewAgent(RaceProject, RaceUser, None, ExternalTools)
            index == Len(race_heap) + 1
        IN /\ call.pc = "loading"
           /\ race_heap' = Append(race_heap,
                  AgentTurn(agent, call.session, call.message, now, BridgeReply).agent)
           /\ race_cached' = index
           /\ race_calls' = [race_calls EXCEPT ![r].pc = "done", ![r].agent = index]
           /\ user_agents' = CacheOf(race_heap', index)
           /\ UNCHANGED <<now, suspended, last_call, last_sweep, last_response,
                          allow_file_write>>

-----------------------------------------------------------------------------

(* The background tasks of POST /upload.  add_task (documents.py:110-114)  *)
(* puts the job on the request's BackgroundTasks object; the framework     *)
(* attaches that object to the response the handler returns and runs the   *)
(* tasks after sending it.  A request that ends with an HTTPException has  *)
(* no such response: the error response is built by the exception handler  *)
(* and the tasks collected so far are dropped.                             *)
(* The rows the table can come to hold: one per user and accepted content. *)
StorableDocuments ==
    Cardinality(ApiUsers) * Cardinality({ c \in Contents : c.size <= MAX_FILE_SIZE })

TasksIdle ==
    /\ background_tasks = [slot \in 1..MaxUploads |-> {}]
    /\ running = {}

(* Requests arrive one after the other here.                               *)
UploadRequest ==
    /\ \A slot \in 1..MaxUploads : uploads[slot] = NoUpload
    /\ UploadStart
    /\ UNCHANGED <<background_tasks, running>>

(* One iteration of the loop (lines 59-126) with its add_task, or the      *)
(* HTTPException that ends the request.                                    *)
UploadIteration ==
    \E slot \in 1..MaxUploads :
        /\ HandleFile(slot)
        /\ background_tasks' = [background_tasks EXCEPT ![slot] =
               IF uploads'[slot] = NoUpload THEN {} ELSE @ \cup (jobs' \ jobs)]
        /\ UNCHANGED running

(* Lines 128-131: the handler returns and its tasks go to the server.      *)
UploadResponse ==
    \E slot \in 1..MaxUploads :
        /\ Respond(slot)
        /\ running' = running \cup background_tasks[slot]
        /\ background_tasks' = [background_tasks EXCEPT ![slot] = {}]

(* process_document_async runs for one document                            *)
(* (document_processor.py:33-113): it ends with completed or failed.       *)
RunTask ==
    \E id \in running, outcome \in { "completed", "failed" } :
        /\ documents' = [documents EXCEPT ![id].processing_status = outcome]
        /\ running' = running \ {id}
        /\ last_file' = None
        /\ UNCHANGED <<jobs, uploads, background_tasks>>

-----------------------------------------------------------------------------

(* The authentication path: get_or_create_user_from_nextauth               *)
(* (api/services/auth.py:76-130).                                          *)
MaxAccounts == 2    \* User rows while both paths are in use

ProviderIds == { "google-1", "google-2" }

(* Lines 85-87 and the filter of lines 93-95: the rows the query matches.  *)
MatchingUsers(rows, email, user_id) ==
    LET provider_id == IF user_id = None THEN email ELSE user_id[1]
    IN { u \in rows : u.email = email \/ u.vercel_user_id = provider_id }

(* A session is resolved to its user.  `.first()` has no ORDER BY: when    *)
(* several rows match, any of them can be the one returned.  Lines 97-104  *)
(* store the session's email on the row found; lines 108-116 insert a row  *)
(* when none was found.                                                    *)
get_or_create_user_from_nextauth ==
    \E email \in Emails, user_id \in { None } \cup { Some(p) : p \in ProviderIds } :
        LET provider_id == IF user_id = None THEN email ELSE user_id[1]
            matching == MatchingUsers(users, email, user_id)
        IN /\ IF matching = {}
              THEN /\ Cardinality(users) < MaxAccounts
                   /\ users' = users \cup { User(users, provider_id, email) }
              ELSE \E user \in matching :
                      users' = (users \ {user}) \cup { [user EXCEPT !.email = email] }
           /\ UNCHANGED mig_calls

(* A tool handler resolves its caller while the table has room.            *)
ResolveToolUser ==
    /\ Cardinality(users) < MaxAccounts
    /\ GetAccessibleUserId

-----------------------------------------------------------------------------

(* Specifications.                                                         *)
(* Tool.safe_execute on bounded inputs.                                    *)
NextTool == SafeExecute /\ UNCHANGED <<provVars, sseVars, cacheVars, apiVars>>

DataIdle == UploadIdle /\ CalendarIdle /\ MigrationIdle /\ DocumentsIdle /\ ProcessingIdle /\ BridgeIdle /\ IsolationIdle /\ RaceIdle /\ TasksIdle

ApiIdle == DataIdle /\ FileIdle

InitSpecTool == InitTool /\ ProvIdle /\ SseIdle /\ CacheIdle /\ ApiIdle

SpecTool == InitSpecTool /\ [][NextTool]_vars

(* to_sse_stream over bounded upstream generators.                         *)
NextSse ==
    \/ SseForward /\ UNCHANGED <<toolVars, provVars, cacheVars, apiVars>>
    \/ SseExcept /\ UNCHANGED <<toolVars, provVars, cacheVars, apiVars>>
    \/ SseFinally /\ UNCHANGED <<toolVars, provVars, cacheVars, apiVars>>

InitSpecSse == ToolIdle /\ ProvIdle /\ InitSse /\ CacheIdle /\ ApiIdle

SpecSse == InitSpecSse /\ [][NextSse]_vars

(* The agent cache under the routes that use it.                           *)
NextCache ==
    \/ CallHit /\ UNCHANGED <<toolVars, provVars, sseVars, apiVars>>
    \/ CallCreate /\ UNCHANGED <<toolVars, provVars, sseVars, apiVars>>
    \/ CallSuspend /\ UNCHANGED <<toolVars, provVars, sseVars, apiVars>>
    \/ CallResume /\ UNCHANGED <<toolVars, provVars, sseVars, apiVars>>
    \/ CleanupInactive /\ UNCHANGED <<toolVars, provVars, sseVars, apiVars>>
    \/ CleanupUserAgents /\ UNCHANGED <<toolVars, provVars, sseVars, apiVars>>
    \/ Tick /\ UNCHANGED <<toolVars, provVars, sseVars, apiVars>>

InitSpecCache == ToolIdle /\ ProvIdle /\ SseIdle /\ CacheIdle /\ ApiIdle

SpecCache == InitSpecCache /\ [][NextCache]_vars

(* The routes that build agents, under either value of the setting.       *)
NextRoutes ==
    \/ CallHit /\ UNCHANGED <<toolVars, provVars, sseVars, apiVars>>
    \/ CallCreate /\ UNCHANGED <<toolVars, provVars, sseVars, apiVars>>
    \/ CallSuspend /\ UNCHANGED <<toolVars, provVars, sseVars, apiVars>>
    \/ CallResume /\ UNCHANGED <<toolVars, provVars, sseVars, apiVars>>
    \/ CallResumeNoTools /\ UNCHANGED <<toolVars, provVars, sseVars, apiVars>>
    \/ CallWithoutUser /\ UNCHANGED <<toolVars, provVars, sseVars, apiVars>>

InitRoutes ==
    /\ user_agents = EmptyDict
    /\ now = 0
    /\ suspended = {}
    /\ last_call = None
    /\ last_sweep = None
    /\ last_response = None
    /\ allow_file_write \in BOOLEAN

InitSpecRoutes == ToolIdle /\ ProvIdle /\ SseIdle /\ InitRoutes /\ ApiIdle

SpecRoutes == InitSpecRoutes /\ [][NextRoutes]_vars

(* One stream of the provider.                                             *)
InfraIdle == ToolIdle /\ ProvIdle /\ SseIdle /\ CacheIdle

Init == InfraIdle /\ ApiIdle

Next ==
    \/ SetTools /\ UNCHANGED <<toolVars, sseVars, cacheVars, apiVars>>
    \/ StartStream /\ UNCHANGED <<toolVars, sseVars, cacheVars, apiVars>>
    \/ RoundModelResponds /\ UNCHANGED <<toolVars, sseVars, cacheVars, apiVars>>
    \/ RoundModelRaises /\ UNCHANGED <<toolVars, sseVars, cacheVars, apiVars>>
    \/ ToolCompletes /\ UNCHANGED <<toolVars, sseVars, cacheVars, apiVars>>
    \/ EmitToolResults /\ UNCHANGED <<toolVars, sseVars, cacheVars, apiVars>>
    \/ MaxRoundsReached /\ UNCHANGED <<toolVars, sseVars, cacheVars, apiVars>>

Spec == Init /\ [][Next]_vars

(* Uploads of documents, possibly overlapping.                             *)
NextUpload ==
    \/ UploadStart /\ UNCHANGED <<infraVars, calVars, migVars, docVars, fileVars, procVars, bridgeVars, isoVars, raceVars, taskVars>>
    \/ UploadFile /\ UNCHANGED <<infraVars, calVars, migVars, docVars, fileVars, procVars, bridgeVars, isoVars, raceVars, taskVars>>
    \/ UploadFinish /\ UNCHANGED <<infraVars, calVars, migVars, docVars, fileVars, procVars, bridgeVars, isoVars, raceVars, taskVars>>

InitSpecUpload == InfraIdle /\ ApiIdle

SpecUpload == InitSpecUpload /\ [][NextUpload]_vars

(* Calendar calls of the front end and of the agent's tools.               *)
NextCalendar ==
    \/ create_event /\ UNCHANGED <<infraVars, uploadVars, migVars, docVars, fileVars, procVars, bridgeVars, isoVars, raceVars, taskVars>>
    \/ update_event /\ UNCHANGED <<infraVars, uploadVars, migVars, docVars, fileVars, procVars, bridgeVars, isoVars, raceVars, taskVars>>
    \/ delete_event /\ UNCHANGED <<infraVars, uploadVars, migVars, docVars, fileVars, procVars, bridgeVars, isoVars, raceVars, taskVars>>
    \/ create_suggested_event /\ UNCHANGED <<infraVars, uploadVars, migVars, docVars, fileVars, procVars, bridgeVars, isoVars, raceVars, taskVars>>
    \/ approve_suggested_event /\ UNCHANGED <<infraVars, uploadVars, migVars, docVars, fileVars, procVars, bridgeVars, isoVars, raceVars, taskVars>>
    \/ delete_suggested_event /\ UNCHANGED <<infraVars, uploadVars, migVars, docVars, fileVars, procVars, bridgeVars, isoVars, raceVars, taskVars>>
    \/ create_user_calendar_event /\ UNCHANGED <<infraVars, uploadVars, migVars, docVars, fileVars, procVars, bridgeVars, isoVars, raceVars, taskVars>>
    \/ update_user_calendar_event /\ UNCHANGED <<infraVars, uploadVars, migVars, docVars, fileVars, procVars, bridgeVars, isoVars, raceVars, taskVars>>
    \/ delete_user_calendar_event /\ UNCHANGED <<infraVars, uploadVars, migVars, docVars, fileVars, procVars, bridgeVars, isoVars, raceVars, taskVars>>
    \/ suggest_user_calendar_event /\ UNCHANGED <<infraVars, uploadVars, migVars, docVars, fileVars, procVars, bridgeVars, isoVars, raceVars, taskVars>>

InitSpecCalendar == InfraIdle /\ ApiIdle

SpecCalendar == InitSpecCalendar /\ [][NextCalendar]_vars

(* Tool handlers resolving their callers while the development user's      *)
(* documents arrive.                                                       *)
NextMigration ==
    \/ GetAccessibleUserId /\ UNCHANGED <<infraVars, calVars, docVars, fileVars, procVars, bridgeVars, isoVars, raceVars, taskVars>>
    \/ DevUpload /\ UNCHANGED <<infraVars, calVars, docVars, fileVars, procVars, bridgeVars, isoVars, raceVars, taskVars>>

InitSpecMigration == InfraIdle /\ ApiIdle

SpecMigration == InitSpecMigration /\ [][NextMigration]_vars

(* The document tools over a growing table.                                *)
NextDocuments ==
    \/ StoreDocument /\ UNCHANGED <<infraVars, uploadVars, calVars, migVars, fileVars, procVars, bridgeVars, isoVars, raceVars, taskVars>>
    \/ search_user_documents /\ UNCHANGED <<infraVars, uploadVars, calVars, migVars, fileVars, procVars, bridgeVars, isoVars, raceVars, taskVars>>
    \/ get_user_document /\ UNCHANGED <<infraVars, uploadVars, calVars, migVars, fileVars, procVars, bridgeVars, isoVars, raceVars, taskVars>>

InitSpecDocuments == InfraIdle /\ ApiIdle

SpecDocuments == InitSpecDocuments /\ [][NextDocuments]_vars

(* The file tools of one agent over one disk.                              *)
NextFile ==
    \/ ReadFile /\ UNCHANGED <<infraVars, uploadVars, calVars, migVars, docVars, procVars, bridgeVars, isoVars, raceVars, taskVars>>
    \/ WriteFile /\ UNCHANGED <<infraVars, uploadVars, calVars, migVars, docVars, procVars, bridgeVars, isoVars, raceVars, taskVars>>
    \/ ListDirectory /\ UNCHANGED <<infraVars, uploadVars, calVars, migVars, docVars, procVars, bridgeVars, isoVars, raceVars, taskVars>>

InitSpecFile == InfraIdle /\ DataIdle /\ InitFile

SpecFile == InitSpecFile /\ [][NextFile]_vars

(* One document from its upload on: its job, reprocess requests, its       *)
(* deletion and one status stream.                                         *)
NextProcessing ==
    \/ ProcessStart /\ UNCHANGED <<infraVars, uploadVars, calVars, migVars, docVars, fileVars, bridgeVars, isoVars, raceVars, taskVars>>
    \/ ProcessExtract /\ UNCHANGED <<infraVars, uploadVars, calVars, migVars, docVars, fileVars, bridgeVars, isoVars, raceVars, taskVars>>
    \/ ProcessFinish /\ UNCHANGED <<infraVars, uploadVars, calVars, migVars, docVars, fileVars, bridgeVars, isoVars, raceVars, taskVars>>
    \/ reprocess_document /\ UNCHANGED <<infraVars, uploadVars, calVars, migVars, docVars, fileVars, bridgeVars, isoVars, raceVars, taskVars>>
    \/ reprocess_with_ai /\ UNCHANGED <<infraVars, uploadVars, calVars, migVars, docVars, fileVars, bridgeVars, isoVars, raceVars, taskVars>>
    \/ delete_document /\ UNCHANGED <<infraVars, uploadVars, calVars, migVars, docVars, fileVars, bridgeVars, isoVars, raceVars, taskVars>>
    \/ get_processing_status /\ UNCHANGED <<infraVars, uploadVars, calVars, migVars, docVars, fileVars, bridgeVars, isoVars, raceVars, taskVars>>
    \/ StreamPoll /\ UNCHANGED <<infraVars, uploadVars, calVars, migVars, docVars, fileVars, bridgeVars, isoVars, raceVars, taskVars>>

InitSpecProcessing == InfraIdle /\ ApiIdle

SpecProcessing == InitSpecProcessing /\ [][NextProcessing]_vars

(* Successive chat turns of the bridge.                                    *)
NextBridge ==
    \/ BridgeInitialize /\ UNCHANGED <<toolVars, provVars, sseVars, uploadVars, calVars, migVars, docVars, fileVars, procVars, isoVars, raceVars, taskVars>>
    \/ BridgeInitializeFails /\ UNCHANGED <<toolVars, provVars, sseVars, uploadVars, calVars, migVars, docVars, fileVars, procVars, isoVars, raceVars, taskVars>>
    \/ BridgeChat /\ UNCHANGED <<toolVars, provVars, sseVars, uploadVars, calVars, migVars, docVars, fileVars, procVars, isoVars, raceVars, taskVars>>

InitSpecBridge == InfraIdle /\ ApiIdle

SpecBridge == InitSpecBridge /\ [][NextBridge]_vars

(* Chat requests and user cleanups over keys that may collide.             *)
NextIsolation ==
    \/ IsolatedChat /\ UNCHANGED <<toolVars, provVars, sseVars, uploadVars, calVars, migVars, docVars, fileVars, procVars, bridgeVars, raceVars, taskVars>>
    \/ IsolatedCleanup /\ UNCHANGED <<toolVars, provVars, sseVars, uploadVars, calVars, migVars, docVars, fileVars, procVars, bridgeVars, raceVars, taskVars>>

InitSpecIsolation == InfraIdle /\ ApiIdle

SpecIsolation == InitSpecIsolation /\ [][NextIsolation]_vars

(* Chat requests racing for one key.                                       *)
NextRace ==
    \/ RaceMiss /\ UNCHANGED <<toolVars, provVars, sseVars, uploadVars, calVars, migVars, docVars, fileVars, procVars, bridgeVars, isoVars, taskVars>>
    \/ RaceHit /\ UNCHANGED <<toolVars, provVars, sseVars, uploadVars, calVars, migVars, docVars, fileVars, procVars, bridgeVars, isoVars, taskVars>>
    \/ RaceResume /\ UNCHANGED <<toolVars, provVars, sseVars, uploadVars, calVars, migVars, docVars, fileVars, procVars, bridgeVars, isoVars, taskVars>>

InitSpecRace == InfraIdle /\ ApiIdle

SpecRace == InitSpecRace /\ [][NextRace]_vars

(* Suggestions, approved or rejected any number of times.                  *)
NextApproval ==
    \/ SuggestRow /\ UNCHANGED <<infraVars, uploadVars, migVars, docVars, fileVars, procVars, bridgeVars, isoVars, raceVars, taskVars>>
    \/ ApproveRow /\ UNCHANGED <<infraVars, uploadVars, migVars, docVars, fileVars, procVars, bridgeVars, isoVars, raceVars, taskVars>>

InitSpecApproval == InfraIdle /\ ApiIdle

SpecApproval == InitSpecApproval /\ [][NextApproval]_vars

(* Uploads with the jobs they schedule.  Every request that has started    *)
(* goes on to its end, and the server runs every task it was handed.       *)
NextTasks ==
    \/ UploadRequest /\ UNCHANGED <<infraVars, calVars, migVars, docVars, fileVars, procVars, bridgeVars, isoVars, raceVars>>
    \/ UploadIteration /\ UNCHANGED <<infraVars, calVars, migVars, docVars, fileVars, procVars, bridgeVars, isoVars, raceVars>>
    \/ UploadResponse /\ UNCHANGED <<infraVars, calVars, migVars, docVars, fileVars, procVars, bridgeVars, isoVars, raceVars>>
    \/ RunTask /\ UNCHANGED <<infraVars, calVars, migVars, docVars, fileVars, procVars, bridgeVars, isoVars, raceVars>>

InitSpecTasks == InfraIdle /\ ApiIdle

FairTasks ==
    /\ WF_vars(UploadIteration /\ UNCHANGED <<infraVars, calVars, migVars, docVars, fileVars, procVars, bridgeVars, isoVars, raceVars>>)
    /\ WF_vars(UploadResponse /\ UNCHANGED <<infraVars, calVars, migVars, docVars, fileVars, procVars, bridgeVars, isoVars, raceVars>>)
    /\ WF_vars(RunTask /\ UNCHANGED <<infraVars, calVars, migVars, docVars, fileVars, procVars, bridgeVars, isoVars, raceVars>>)

SpecTasks == InitSpecTasks /\ [][NextTasks]_vars /\ FairTasks

(* Users arriving through authentication and through the agent tools.      *)
NextUsers ==
    \/ get_or_create_user_from_nextauth /\ UNCHANGED <<infraVars, uploadVars, calVars, docVars, fileVars, procVars, bridgeVars, isoVars, raceVars, taskVars>>
    \/ ResolveToolUser /\ UNCHANGED <<infraVars, calVars, docVars, fileVars, procVars, bridgeVars, isoVars, raceVars, taskVars>>

InitSpecUsers == InfraIdle /\ ApiIdle

SpecUsers == InitSpecUsers /\ [][NextUsers]_vars

-----------------------------------------------------------------------------
(* Helpers of the properties.                                              *)
Last(seq) == seq[Len(seq)]
CountType(seq, t) == Cardinality({ j \in DOMAIN seq : seq[j].type = t })
IsErrorWithCode(chunk, code) == chunk.type = "error" /\ chunk.data.code = code
UsesTools(entry) ==
    /\ entry.kind = "response"
    /\ \E j \in DOMAIN entry.response : entry.response[j].type = "tool_use"
ToolFree(entry) ==
    /\ entry.kind = "response"
    /\ \A j \in DOMAIN entry.response : entry.response[j].type = "text"
AllResponsesUseTools == \A k \in DOMAIN model_log : UsesTools(model_log[k])

(* The type (and call id) of each chunk of a stream.                       *)
ChunkView(chunk) ==
    IF chunk.type \in {"tool_call", "tool_result"}
    THEN <<chunk.type, chunk.data.id>>
    ELSE <<chunk.type>>

(* What a round with this response must show: one chunk per block, then    *)
(* one tool_result per tool_use block, in block order.                     *)
RECURSIVE ResultViews(_)
ResultViews(response) ==
    IF response = << >> THEN << >>
    ELSE IF Head(response).type = "tool_use"
         THEN << <<"tool_result", Head(response).id>> >> \o ResultViews(Tail(response))
         ELSE ResultViews(Tail(response))

RoundView(response) ==
    [j \in DOMAIN response |->
        IF response[j].type = "tool_use"
        THEN <<"tool_call", response[j].id>> ELSE <<"content">>]
    \o ResultViews(response)

(* A tool round has just been streamed: the loop is back at its head.      *)
RoundStreamed == p_pc = "round" /\ round_count >= 1

(* The chunk streamed for the i-th call of the round just streamed.        *)
RoundResultChunk(i) == chunks[Len(chunks) - Len(tool_calls) + i]

(* C1: when every model response requests a tool, the stream makes exactly *)
(* 3 model calls, shows the tool_call and tool_result chunks of exactly 3  *)
(* rounds and ends with one error chunk max_rounds_exceeded; there is      *)
(* never a 4th model call and never a done chunk.                          *)
C1_MaxRoundsBound ==
    /\ Len(model_log) <= 3
    /\ (p_pc = "end" /\ AllResponsesUseTools) =>
         /\ Len(model_log) = 3
         /\ [j \in DOMAIN chunks |-> ChunkView(chunks[j])] =
              RoundView(model_log[1].response) \o RoundView(model_log[2].response)
              \o RoundView(model_log[3].response) \o << <<"error">> >>
         /\ IsErrorWithCode(Last(chunks), "max_rounds_exceeded")
         /\ CountType(chunks, "done") = 0

C1_Witness ==
    /\ p_pc = "end"
    /\ AllResponsesUseTools
    /\ Len(model_log) = 3
    /\ CountType(chunks, "tool_result") >= 4

(* C2: the first tool-free response ends the stream: its text blocks are   *)
(* streamed as content chunks, then exactly one done chunk carries the     *)
(* text of that round; nothing follows and no further model call is made.  *)
C2_ToolFreeCompletion ==
    \A k \in DOMAIN model_log :
        ToolFree(model_log[k]) =>
            LET response == model_log[k].response
                n == Len(response)
            IN /\ k = Len(model_log)
               /\ p_pc = "end"
               /\ Len(chunks) >= n + 1
               /\ \A j \in 1..n :
                     chunks[Len(chunks) - 1 - n + j] = ContentChunk(response[j].text)
               /\ Last(chunks) = DoneChunk(Some([j \in 1..n |-> response[j].text]))
               /\ CountType(chunks, "done") = 1
               /\ CountType(chunks, "error") = 0

C2_Witness ==
    /\ Len(model_log) = 2
    /\ ToolFree(model_log[2])
    /\ Len(model_log[2].response) = 2
    /\ p_pc = "end"

(* C3: in a round of tool calls, every call gets exactly one tool_result   *)
(* chunk; a call whose tool raised (or was never run) has success=false    *)
(* with the exception message, a call whose tool returned has the success  *)
(* flag and content the tool returned; a tool failure never ends the       *)
(* stream (only a failed model call produces anthropic_error).             *)
C3_ParallelIsolation ==
    /\ RoundStreamed =>
         /\ CountType(chunks, "error") = 0
         /\ \A i \in DOMAIN tool_calls :
              /\ Cardinality({ j \in DOMAIN chunks :
                                 /\ chunks[j].type = "tool_result"
                                 /\ chunks[j].data.id = tool_calls[i].id }) = 1
              /\ \E j \in DOMAIN chunks :
                   /\ chunks[j].type = "tool_result"
                   /\ chunks[j].data.id = tool_calls[i].id
                   /\ LET result == chunks[j].data.result
                      IN CASE execs[i].kind = "raise" ->
                                 /\ result.success = FALSE
                                 /\ result.error = Some(execs[i].message)
                           [] execs[i].kind = "return" ->
                                 /\ result.success = execs[i].result.success
                                 /\ result.content = execs[i].result.content
                           [] OTHER -> result.success = FALSE
    /\ \A j \in DOMAIN chunks :
         IsErrorWithCode(chunks[j], "anthropic_error") => Last(model_log).kind = "raise"

C3_Witness ==
    /\ RoundStreamed
    /\ \E i, k \in DOMAIN tool_calls :
         /\ execs[i].kind = "raise"
         /\ execs[k].kind = "return"
         /\ \E j \in DOMAIN chunks :
              /\ chunks[j].type = "tool_result"
              /\ chunks[j].data.id = tool_calls[k].id
              /\ chunks[j].data.result.success

(* C4: a stream has at most one done/error chunk, it is the last chunk and *)
(* a finished stream has exactly one; every tool_result chunk comes after  *)
(* the tool_call chunk with the same call id.                              *)
C4_ChunkOrdering ==
    LET terminal == { j \in DOMAIN chunks : chunks[j].type \in {"done", "error"} }
    IN /\ Cardinality(terminal) <= 1
       /\ \A j \in terminal : j = Len(chunks)
       /\ p_pc = "end" <=> terminal # {}
       /\ \A j \in DOMAIN chunks :
            chunks[j].type = "tool_result" =>
                \E i \in 1..(j - 1) :
                    /\ chunks[i].type = "tool_call"
                    /\ chunks[i].data.id = chunks[j].data.id

C4_Witness ==
    /\ p_pc = "end"
    /\ IsErrorWithCode(Last(chunks), "anthropic_error")
    /\ CountType(chunks, "tool_result") >= 2

(* C5: the tool_result chunks of a round are streamed in call order - the  *)
(* i-th carries the id and the result of the i-th call, whatever order the *)
(* executions finished in - exactly one per call, and none is streamed     *)
(* while an execution of the round is still running.                       *)
C5_ResultOrder ==
    /\ RoundStreamed =>
         /\ \A i \in DOMAIN tool_calls :
              /\ RoundResultChunk(i).type = "tool_result"
              /\ RoundResultChunk(i).data.id = tool_calls[i].id
              /\ RoundResultChunk(i).data.result = task_results[i][1].value
         /\ chunks[Len(chunks) - Len(tool_calls)].type # "tool_result"
    /\ \A j \in DOMAIN chunks :
         (/\ chunks[j].type = "tool_result"
          /\ \E i \in DOMAIN tool_calls : tool_calls[i].id = chunks[j].data.id)
         => \A i \in DOMAIN tool_calls : task_results[i] # None

C5_Witness ==
    /\ RoundStreamed
    /\ completion_order = <<2, 1>>
    /\ RoundResultChunk(1).data.result.success
    /\ ~RoundResultChunk(2).data.result.success

(* C6: safe_execute always returns a ToolResult to its caller; when        *)
(* validation or the tool's execute raises, the result has success=false,  *)
(* the exception message as error and an execution time.                   *)
C6_SafeExecuteNeverThrows ==
    se_pc = "returned" =>
        /\ se_ret.raised = FALSE
        /\ LET valid == validate_parameters(se_tool, se_params)
               result == se_ret.value
           IN /\ valid.raised =>
                    /\ result.success = FALSE
                    /\ result.error = Some(valid.message)
                    /\ result.execution_time # None
              /\ se_exec.kind = "raise" =>
                    /\ result.success = FALSE
                    /\ result.error = Some(se_exec.message)
                    /\ result.execution_time # None

C6_Witness ==
    /\ se_pc = "returned"
    /\ se_exec.kind = "raise"
    /\ se_ret.raised = FALSE
    /\ se_ret.value.success = FALSE

(* C7: whenever the provider's stream ends with an error chunk, the stream *)
(* of Agent.send_message contains an error chunk, POST /chat answers with  *)
(* status "error" and POST /chat/stream delivers an error record.          *)
C7_FailuresVisible ==
    (p_pc = "end" /\ Last(chunks).type = "error") =>
        LET agent_stream == send_message(chunks)
        IN /\ \E j \in DOMAIN agent_stream : agent_stream[j].type = "error"
           /\ chat(chunks).status = "error"
           /\ \E j \in DOMAIN agent_stream :
                to_sse_event(agent_stream[j]).data.type = "error"

(* C8: to_sse_stream yields one record per upstream chunk, in order; an    *)
(* upstream that raises adds exactly one error record stream_error after   *)
(* them; either way one done record closes the stream as its last record.  *)
C8_SseClosing ==
    /\ \A i \in 1..sse_pos :
         /\ i <= Len(sse_out)
         /\ sse_out[i].data.type = sse_upstream[i].type
         /\ sse_out[i].data.data = sse_upstream[i].data
    /\ sse_pc = "closed" =>
         LET n == Len(sse_upstream)
             failed == sse_raises # None
             extra == IF failed THEN 1 ELSE 0
         IN /\ sse_pos = n
            /\ Len(sse_out) = n + extra + 1
            /\ failed =>
                 /\ sse_out[n + 1].data.type = "error"
                 /\ sse_out[n + 1].data.data.code = "stream_error"
                 /\ sse_out[n + 1].data.data.error = sse_raises[1]
            /\ Last(sse_out).data.type = "done"
            /\ Last(sse_out).data.data.final_message = None

C8_Witness ==
    /\ sse_pc = "closed"
    /\ sse_raises # None
    /\ Len(sse_upstream) >= 2
    /\ Len(sse_out) = Len(sse_upstream) + 2

(* C9: a get_or_create_agent call that has returned left the returned     *)
(* agent cached under its key; without a prompt and with an entry present  *)
(* it returned that entry unchanged; with a prompt and an entry present it *)
(* returned a new agent carrying that prompt and no conversations, the old *)
(* entry being gone.                                                       *)
C9_CacheResolution ==
    last_call # None =>
        LET c == last_call[1]
        IN /\ c.cached = Some(c.returned)
           /\ (c.prompt = None /\ c.existed) =>
                /\ c.before # None
                /\ c.returned = c.before[1]
           /\ (c.prompt # None /\ c.existed) =>
                /\ c.returned.system_prompt = c.prompt[1]
                /\ c.returned.conversations = EmptyDict

C9_Witness ==
    /\ last_call # None
    /\ last_call[1].prompt # None
    /\ last_call[1].existed
    /\ last_call[1].before # None
    /\ last_call[1].before[1].conversations # EmptyDict
    /\ last_call[1].before[1].system_prompt # last_call[1].prompt[1]
    /\ last_call[1].returned.conversations = EmptyDict

(* C10: right after the sweep the cache holds exactly the agents it held   *)
(* before that have a conversation updated less than one hour earlier, and *)
(* holds them unchanged.                                                   *)
C10_CleanupSweep ==
    last_sweep # None =>
        LET s == last_sweep[1]
        IN /\ DOMAIN user_agents \subseteq DOMAIN s.before
           /\ \A agent_key \in DOMAIN s.before :
                /\ agent_key \in DOMAIN user_agents <=>
                     \E session \in DOMAIN s.before[agent_key].conversations :
                        s.at - s.before[agent_key].conversations[session].updated_at
                            < OneHour
                /\ agent_key \in DOMAIN user_agents =>
                     user_agents[agent_key] = s.before[agent_key]

C10_Witness ==
    /\ last_sweep # None
    /\ \E removed \in DOMAIN last_sweep[1].before \ DOMAIN user_agents :
         last_sweep[1].before[removed].conversations # EmptyDict
    /\ \E kept \in DOMAIN user_agents :
         LET conversations == user_agents[kept].conversations
         IN \E old, recent \in DOMAIN conversations :
              /\ last_sweep[1].at - conversations[old].updated_at >= OneHour
              /\ last_sweep[1].at - conversations[recent].updated_at < OneHour

(* C11: an upload of a file whose hash equals that of a document the same  *)
(* owner already has is reported as duplicate with that document's id and  *)
(* adds no row and no job; no owner ever has two rows with the same hash.  *)
C11_DuplicateDetection ==
    /\ last_file # None =>
         LET f == last_file[1]
             same == { i \in DOMAIN f.rows :
                         /\ f.rows[i].user_id = f.current_user
                         /\ f.rows[i].file_hash = Sha256(f.file.content) }
         IN same # {} =>
              /\ f.entry.status = "duplicate"
              /\ \E i \in same : f.entry.id = f.rows[i].id
              /\ documents = f.rows
              /\ jobs = f.scheduled
    /\ \A i, j \in DOMAIN documents :
         (documents[i].user_id = documents[j].user_id
          /\ documents[i].file_hash = documents[j].file_hash) => i = j

C11_Witness ==
    /\ last_file # None
    /\ last_file[1].entry.status = "duplicate"
    /\ Len(documents) >= 2
    /\ \E i \in DOMAIN documents :
         /\ documents[i].user_id # last_file[1].current_user
         /\ documents[i].file_hash = Sha256(last_file[1].file.content)
         /\ documents[i].id # last_file[1].entry.id

C13_SuggestedHasReason ==
    \A x \in DOMAIN calendar_events :
        calendar_events[x].status = "suggested" =>
            /\ calendar_events[x].suggestion_reason \notin { None, Some("") }
            /\ calendar_events[x].suggestion_confidence # None
            /\ calendar_events[x].suggestion_confidence[1] \in 1..10

(* C14: every row with a parent names an existing row that was inserted as *)
(* a suggestion and has no parent itself.                                  *)
C14_NoApprovalChains ==
    \A x \in DOMAIN calendar_events :
        calendar_events[x].parent_event_id # None =>
            LET parent == calendar_events[x].parent_event_id[1]
            IN /\ parent \in DOMAIN calendar_events
               /\ calendar_events[parent].created_status = "suggested"
               /\ calendar_events[parent].parent_event_id = None

(* C15: of two calls in a row with the same allow-listed email that no     *)
(* user had before the first, both return the same id; the first creates   *)
(* exactly one user and moves the development user's documents to it; the  *)
(* second changes no row.                                                  *)
C15_MigrationIdempotence ==
    \A i \in 1..(Len(mig_calls) - 1) :
        LET first == mig_calls[i]
            second == mig_calls[i + 1]
        IN (/\ first.kind = "call" /\ second.kind = "call"
            /\ first.email = second.email
            /\ Lower(first.email) \in authorized_emails
            /\ ~\E u \in first.users_before : u.email = first.email) =>
               /\ first.returned # None
               /\ second.returned = first.returned
               /\ Cardinality(first.users) = Cardinality(first.users_before) + 1
               /\ Cardinality({ u \in second.users : u.email = first.email }) = 1
               /\ \A u \in second.users : u.email = first.email => u.id = first.returned[1]
               /\ \A j \in DOMAIN first.documents_before :
                    first.documents[j] =
                        IF \E u \in first.users_before :
                              /\ u.vercel_user_id = "dev_user_1"
                              /\ u.id = first.documents_before[j].user_id
                        THEN [first.documents_before[j] EXCEPT !.user_id = first.returned[1]]
                        ELSE first.documents_before[j]
               /\ Len(first.documents) = Len(first.documents_before)
               /\ second.users = first.users
               /\ second.documents = first.documents

C15_Witness ==
    /\ Len(mig_calls) = 3
    /\ mig_calls[1].kind = "upload"
    /\ mig_calls[2].kind = "call" /\ mig_calls[3].kind = "call"
    /\ mig_calls[2].email = "Augu144@Gmail.com"
    /\ mig_calls[3].email = "Augu144@Gmail.com"
    /\ mig_calls[2].documents # mig_calls[2].documents_before
    /\ mig_calls[3].returned = mig_calls[2].returned

(* C16: on an unchanged data set, get_document("doc_N") returns the        *)
(* document that is the N-th element of the search_documents result, for   *)
(* every query and category filter.                                        *)
C16_RefResolution ==
    (/\ last_search # None /\ last_get # None
     /\ ~last_search[1].response.raised
     /\ last_get[1].document_id[1] = "doc_"
     /\ last_get[1].document_id[2] \in DOMAIN last_search[1].response.value) =>
        /\ ~last_get[1].response.raised
        /\ last_get[1].response.value.id =
              last_search[1].response.value[last_get[1].document_id[2]].id

C18_MissingUserIs400 ==
    last_response # None =>
        /\ last_response[1].response.status_code = 400
        /\ user_agents = last_response[1].before

(* C20: every agent built by get_or_create_agent has read_file in its      *)
(* registry, and has write_file and list_directory there exactly when      *)
(* settings.allow_file_write is set.                                       *)
C20_FileToolsOfNewAgent ==
    \A agent_key \in DOMAIN user_agents :
        LET tools == user_agents[agent_key].tools
        IN /\ "read_file" \in tools
           /\ "write_file" \in tools <=> allow_file_write
           /\ "list_directory" \in tools <=> allow_file_write

(* C19: when the provider's stream ends with a done chunk that carries a   *)
(* non-empty final message, the conversation's last message after the turn *)
(* is the assistant message with that text.                                *)
C19_AssistantTurnRecorded ==
    (/\ p_pc = "end"
     /\ chunks # << >>
     /\ Last(chunks).type = "done"
     /\ Last(chunks).data.final_message # None
     /\ Last(chunks).data.final_message[1] # << >>) =>
        Last(ConversationAfter(<< "hello" >>, chunks)) =
            Message("assistant", Last(chunks).data.final_message[1])

(* C21: right after a pass that overlapped no other, the document's quick  *)
(* ref rows are exactly one row per well-formed quick_refs entry of that   *)
(* pass's AI result, and none when the result is missing, empty or has no  *)
(* quick_refs object.                                                      *)
C21_QuickRefsReplaced ==
    (last_pass # None /\ ~overlapped /\ pdoc # None) =>
        LET ai == last_pass[1].ai_result
            entries == IF ai = None THEN {}
                       ELSE IF ai[1].empty THEN {}
                       ELSE IF ai[1].quick_refs.type # "dict" THEN {}
                       ELSE { e \in ai[1].quick_refs.items : e.field_data.type = "dict" }
            mine == SelectSeq(quick_ref_rows, LAMBDA r : r.document_id = pdoc[1].id)
        IN /\ Len(mine) = Cardinality(entries)
           /\ \A e \in entries : \E i \in DOMAIN mine : mine[i].field_name = e.field_name
           /\ \A i \in DOMAIN mine : \E e \in entries :
                 /\ mine[i].field_name = e.field_name
                 /\ mine[i].field_value =
                       (IF e.field_data.value = None THEN "" ELSE e.field_data.value[1])
                 /\ mine[i].field_type =
                       (IF e.field_data.ftype = None THEN "text" ELSE e.field_data.ftype[1])

C21_Witness ==
    /\ last_pass # None /\ ~overlapped /\ pdoc # None
    /\ last_pass[1].kind = "reprocess"
    /\ passes = 2
    /\ last_pass[1].ai_result # None
    /\ Len(quick_ref_rows) = 1
    /\ quick_ref_rows[1].field_name = "confirmation"

C23_StatusStreamProtocol ==
    /\ [](/\ \A i \in DOMAIN stream_events :
                /\ stream_events[i].event \in {"complete", "error"} => i = Len(stream_events)
                /\ stream_events[i].event = "complete" =>
                      /\ i > 1
                      /\ stream_events[i - 1].event = "status"
                      /\ stream_events[i - 1].status = stream_events[i].status
                /\ (stream_events[i].event = "status"
                    /\ stream_events[i].status \in {"completed", "failed"}) =>
                      /\ i < Len(stream_events)
                      /\ stream_events[i + 1].event = "complete"
          /\ stream_pc = "ended" <=>
                (/\ stream_events # << >>
                 /\ Last(stream_events).event \in {"complete", "error"}))
    /\ [][stream_events' # stream_events =>
             LET found == pdoc # None /\ pdoc[1].user_id = stream_user
                 added == SubSeq(stream_events', Len(stream_events) + 1, Len(stream_events'))
             IN /\ SubSeq(stream_events', 1, Len(stream_events)) = stream_events
                /\ added # << >>
                /\ IF found
                   THEN /\ added[1] = [event |-> "status",
                                       status |-> pdoc[1].processing_status]
                        /\ Len(added) = (IF pdoc[1].processing_status \in {"completed", "failed"}
                                         THEN 2 ELSE 1)
                   ELSE added = << [event |-> "error"] >>]_vars

C23_Witness ==
    /\ stream_pc = "ended"
    /\ Len(stream_events) = 4
    /\ stream_events[1].status = "pending"
    /\ stream_events[2].status = "processing"
    /\ stream_events[3].status = "failed"
    /\ stream_events[4].event = "complete"

(* C24: with the provider as get_or_create_agent builds it (set_tools is   *)
(* never called on it), a call of a tool that is in the agent's registry   *)
(* is executed exactly once, and its tool_result block in the message      *)
(* appended for the next round carries what the execution returned, not    *)
(* the tool-not-available placeholder.                                     *)
C24_ToolResultsReachModel ==
    (/\ provider_tools = {}
     /\ p_pc = "round"
     /\ tool_calls # << >>
     /\ \A i \in DOMAIN tool_calls : task_results[i] # None
     /\ Last(conversation_messages).role = "user"
     /\ Len(conversation_messages) > Len(InitialMessages)) =>
        LET registry == NewAgent(<< "kohtravel" >>, << "u1" >>, None, ExternalTools).tools
            blocks == Last(conversation_messages).content
        IN \A i \in DOMAIN tool_calls :
              tool_calls[i].name \in registry =>
                 /\ (IF execs[i] = Skipped THEN 0 ELSE 1) + 1 = 1
                 /\ blocks[i].tool_use_id = tool_calls[i].id
                 /\ blocks[i].content # << "Tool '", tool_calls[i].name, "' not available" >>

(* C25: of two successive send_message calls of the bridge with the same   *)
(* user and session, the message list the second sends to the provider     *)
(* contains the user message of the first.                                 *)
C25_HistorySurvivesTurns ==
    \A i \in 1..(Len(turn_log) - 1) :
        (/\ turn_log[i].user_id = turn_log[i + 1].user_id
         /\ turn_log[i].session_id = turn_log[i + 1].session_id) =>
            \E j \in DOMAIN turn_log[i + 1].sent :
                turn_log[i + 1].sent[j] = Message("user", turn_log[i].message)

(* C26: for project and user strings that may contain ':', the agent a     *)
(* request resolves to was created for the request's own project and user  *)
(* (so requests of different pairs never get the same agent or share a     *)
(* conversation), and DELETE /user/{user_id}/agents evicts only agents     *)
(* created for exactly that user.                                          *)
C26_CacheIsolation ==
    /\ (iso_call # None /\ last_call # None) =>
          /\ last_call[1].returned.project = iso_call[1].project
          /\ last_call[1].returned.user_id = iso_call[1].user_id
    /\ iso_cleanup # None =>
          \A agent_key \in DOMAIN iso_cleanup[1].before \ DOMAIN user_agents :
              iso_cleanup[1].before[agent_key].user_id = iso_cleanup[1].user_id

(* C27: when two chat requests for the same uncached key both suspend at   *)
(* the tool load and both complete, one agent is cached under the key and  *)
(* it holds the user message of each of the two requests.                  *)
C27_HarmlessCreationRace ==
    \A r1, r2 \in Racers :
        (/\ r1 # r2
         /\ race_calls[r1].pc = "done" /\ race_calls[r1].missed
         /\ race_calls[r2].pc = "done" /\ race_calls[r2].missed
         /\ \A r \in Racers \ {r1, r2} : race_calls[r].pc = "idle") =>
            /\ DOMAIN user_agents = {RaceKey}
            /\ \A r \in {r1, r2} :
                  LET conversations == user_agents[RaceKey].conversations
                      session == race_calls[r].session
                  IN /\ session \in DOMAIN conversations
                     /\ \E j \in DOMAIN conversations[session].messages :
                           conversations[session].messages[j] =
                               Message("user", race_calls[r].message)

(* C28: whatever approve calls were made, at most one event with source    *)
(* approved_suggestion has a given suggestion as its parent.               *)
C28_OneApprovalPerSuggestion ==
    \A suggestion \in DOMAIN calendar_events :
        Cardinality({ event_id \in DOMAIN calendar_events :
                        /\ calendar_events[event_id].source = "approved_suggestion"
                        /\ calendar_events[event_id].parent_event_id = Some(suggestion) }) <= 1

(* C29: every Document row POST /upload created eventually reaches         *)
(* completed or failed, also when a later file of its batch is rejected.   *)
C29_StoredUploadProcessed ==
    \A id \in 1..StorableDocuments :
        [](id \in DOMAIN documents =>
              <>(/\ id \in DOMAIN documents
                 /\ documents[id].processing_status \in {"completed", "failed"}))

(* C30: whatever authentications and tool calls were made, no two User     *)
(* rows have the same email.                                               *)
C30_OneUserPerEmail ==
    \A u1, u2 \in users : u1.email = u2.email => u1 = u2

====
